---- MODULE Spec2Model ----
(***************************************************************************)
(* A model of the MgmtSays document-to-knowledge pipeline: chunking,       *)
(* per-company indexing and retrieval, document upload, initiative         *)
(* deduplication and the in-memory job queue.  Each component has its own  *)
(* specification; the variables of the other components stay idle in it.   *)
(*                                                                         *)
(* Lengths of texts are counted in characters.  Scores and confidences are *)
(* floats in the program; here they are integers in units of 0.05 (scores) *)
(* and 0.1 (confidences), which keeps every comparison the code makes.     *)
(***************************************************************************)
EXTENDS Integers, Sequences, FiniteSets, TLC

VARIABLES
    \* chunking (nlp/chunking)
    parsed_doc,      \* the ParsedDocument handed to a chunker
    document_id,     \* the document_id argument
    chunks,          \* the list[Chunk] the last chunker call returned
    chunker,         \* which chunker call produced `chunks`
    \* indexing and retrieval (nlp/indexing, nlp/retrieval)
    collections,     \* ChromaDB: collection name -> set of stored nodes
    _indices,        \* IndexManager._indices: the companies with a cached index
    results,         \* the list[RetrievalResult] the last retrieval call returned
    retrieval_call,  \* the last retrieval call: operation and company_id
    \* document upload (services/document_service.py)
    documents,       \* the rows of table "documents"
    storage_saves,   \* the storage.save calls made so far
    upload_last,     \* the last upload_document call and how it ended
    \* deduplication (nlp/dspy_programs/deduplicator.py)
    comparator,      \* the reasoning model's pairwise judgment, fixed per run
    candidates,      \* the list handed to forward
    first_pass,      \* forward(candidates)
    second_pass,     \* forward(first_pass)
    dedup_pc,        \* which passes have run
    batch_items,     \* deduplicate_batch: the argument of the innermost call
    batch_size,      \* deduplicate_batch: batch_size
    batch_depth,     \* deduplicate_batch: number of nested calls
    batch_pc,        \* deduplicate_batch: idle, running, done or RecursionError
    merge_group_in,  \* the group handed to _merge_group
    merge_result,    \* what _merge_group returned for it
    \* job queue (jobs/processor.py)
    job_objs,        \* every Job object created so far
    _jobs,           \* JobQueue._jobs: job_id -> Job object
    _queue,          \* JobQueue._queue
    _running,        \* JobQueue._running
    _workers,        \* JobQueue._workers: the worker tasks and what each awaits
    \* analysis pipeline (services/analysis_service.py)
    db_initiatives,  \* the rows of table "initiatives", in order of creation
    db_insights,     \* the rows of table "insights", in order of creation
    db_analyses,     \* the rows of table "analyses", by id
    analysis,        \* run_analysis: the row of the run in progress or made last
    raw_insights,    \* run_analysis: raw_insights after step 2
    deduplicated,    \* run_analysis: deduplicated after step 3
    utcnow,          \* the wall clock datetime.utcnow() reads
    \* document deletion (services/document_service.py, nlp/indexing/manager.py)
    document_rows,   \* the ids of the rows of table "documents"
    delete_call,     \* the last IndexManager.delete_document call and its result
    \* initiative extraction (nlp/dspy_programs/initiative_extractor.py)
    context,         \* forward: the chunk text handed to the reasoning model
    model_items,     \* result.initiatives: what the reasoning model returned
    extracted,       \* what forward returned for it
    \* the run_analysis job handler (jobs/processor.py)
    job_documents,   \* run_analysis_job: per document, what extraction will do
    job_position,    \* run_analysis_job: the number of documents gone through
    all_initiatives, \* run_analysis_job: all_initiatives
    job_analysis,    \* the analysis row as update_status wrote it last
    job_created,     \* the initiatives create_initiative has stored
    job_exit,        \* how the handler ended: none, returned or raised
    \* the document parser (nlp/ingestion/parser.py)
    parse_call,      \* DocumentParser.parse: the filename of the last call
    parse_result,    \* DocumentParser.parse: what that call returned or raised
    \* the timeline service (services/timeline_service.py)
    insights,        \* first_mentioned_at of the rows get_by_company returns
    group_by,        \* get_timeline: group_by
    timeline,        \* get_timeline: the items it returned
    \* two run_analysis calls at once (services/analysis_service.py, step 4)
    runs,            \* per analysis id: its items, its position and its locals
    initiative_rows, \* the initiatives table the runs share
    insight_rows,    \* the insights table the runs share
    \* upload_document calls at once (services/document_service.py)
    uploads,         \* per call: its arguments and its position
    document_table,  \* the documents table the calls share
    \* process_document (services/document_service.py)
    doc_status,      \* per document: status, error_message, processed_at, ...
    processing,      \* the document of the process_document call in progress
    process_calls    \* the number of process_document calls made

chunkVars == <<parsed_doc, document_id, chunks, chunker>>
indexVars == <<collections, _indices, results, retrieval_call>>
uploadVars == <<documents, storage_saves, upload_last>>
dedupVars == <<comparator, candidates, first_pass, second_pass, dedup_pc,
               batch_items, batch_size, batch_depth, batch_pc>>
mergeVars == <<merge_group_in, merge_result>>
jobVars == <<job_objs, _jobs, _queue, _running, _workers>>
analysisVars == <<db_initiatives, db_insights, db_analyses, analysis,
                  raw_insights, deduplicated, utcnow>>
deleteVars == <<document_rows, delete_call>>
extractVars == <<context, model_items, extracted>>
analysisJobVars == <<job_documents, job_position, all_initiatives,
                     job_analysis, job_created, job_exit>>
parseVars == <<parse_call, parse_result>>
timelineVars == <<insights, group_by, timeline>>
concurrentVars == <<runs, initiative_rows, insight_rows>>
concurrentUploadVars == <<uploads, document_table>>
processingVars == <<doc_status, processing, process_calls>>
vars == <<chunkVars, indexVars, uploadVars, dedupVars, mergeVars, jobVars,
          analysisVars, deleteVars, extractVars, analysisJobVars, parseVars,
          timelineVars, concurrentVars, concurrentUploadVars, processingVars>>
\* what a step of one component leaves alone
chunkRest == <<indexVars, uploadVars, dedupVars, mergeVars, jobVars,
               analysisVars, deleteVars, extractVars, analysisJobVars,
               parseVars, timelineVars, concurrentVars, concurrentUploadVars,
               processingVars>>
indexRest == <<chunkVars, uploadVars, dedupVars, mergeVars, jobVars,
               analysisVars, deleteVars, extractVars, analysisJobVars,
               parseVars, timelineVars, concurrentVars, concurrentUploadVars,
               processingVars>>
uploadRest == <<chunkVars, indexVars, dedupVars, mergeVars, jobVars,
                analysisVars, deleteVars, extractVars, analysisJobVars,
                parseVars, timelineVars, concurrentVars, concurrentUploadVars,
                processingVars>>
dedupRest == <<chunkVars, indexVars, uploadVars, mergeVars, jobVars,
               analysisVars, deleteVars, extractVars, analysisJobVars,
               parseVars, timelineVars, concurrentVars, concurrentUploadVars,
               processingVars>>
mergeRest == <<chunkVars, indexVars, uploadVars, dedupVars, jobVars,
               analysisVars, deleteVars, extractVars, analysisJobVars,
               parseVars, timelineVars, concurrentVars, concurrentUploadVars,
               processingVars>>
jobsRest == <<chunkVars, indexVars, uploadVars, dedupVars, mergeVars,
              analysisVars, deleteVars, extractVars, analysisJobVars,
              parseVars, timelineVars, concurrentVars, concurrentUploadVars,
              processingVars>>
analysisRest == <<chunkVars, indexVars, uploadVars, dedupVars, mergeVars,
                  jobVars, deleteVars, extractVars, analysisJobVars,
                  parseVars, timelineVars, concurrentVars,
                  concurrentUploadVars, processingVars>>
\* the deletion component works on the index as well
deleteRest == <<chunkVars, uploadVars, dedupVars, mergeVars, jobVars,
                analysisVars, extractVars, analysisJobVars, parseVars,
                timelineVars, concurrentVars, concurrentUploadVars,
                processingVars>>
extractRest == <<chunkVars, indexVars, uploadVars, dedupVars, mergeVars,
                 jobVars, analysisVars, deleteVars, analysisJobVars,
                 parseVars, timelineVars, concurrentVars,
                 concurrentUploadVars, processingVars>>
analysisJobRest == <<chunkVars, indexVars, uploadVars, dedupVars, mergeVars,
                     jobVars, analysisVars, deleteVars, extractVars,
                     parseVars, timelineVars, concurrentVars,
                     concurrentUploadVars, processingVars>>
parseRest == <<chunkVars, indexVars, uploadVars, dedupVars, mergeVars,
               jobVars, analysisVars, deleteVars, extractVars,
               analysisJobVars, timelineVars, concurrentVars,
               concurrentUploadVars, processingVars>>
timelineRest == <<chunkVars, indexVars, uploadVars, dedupVars, mergeVars,
                  jobVars, analysisVars, deleteVars, extractVars,
                  analysisJobVars, parseVars, concurrentVars,
                  concurrentUploadVars, processingVars>>
concurrentRest == <<chunkVars, indexVars, uploadVars, dedupVars, mergeVars,
                    jobVars, analysisVars, deleteVars, extractVars,
                    analysisJobVars, parseVars, timelineVars,
                    concurrentUploadVars, processingVars>>
concurrentUploadRest == <<chunkVars, indexVars, uploadVars, dedupVars,
                          mergeVars, jobVars, analysisVars, deleteVars,
                          extractVars, analysisJobVars, parseVars,
                          timelineVars, concurrentVars, processingVars>>
processingRest == <<chunkVars, indexVars, uploadVars, dedupVars, mergeVars,
                    jobVars, analysisVars, deleteVars, extractVars,
                    analysisJobVars, parseVars, timelineVars, concurrentVars,
                    concurrentUploadVars>>

(***************************************************************************)
(* Helpers on sequences.                                                   *)
(***************************************************************************)
RECURSIVE SumSeq(_)
SumSeq(s) == IF s = <<>> THEN 0 ELSE Head(s) + SumSeq(Tail(s))

\* len(sep.join(parts)) for parts of the given lengths
JoinLen(lens, sep) ==
    IF lens = <<>> THEN 0 ELSE SumSeq(lens) + sep * (Len(lens) - 1)

\* all sequences over S of length lo..hi
SeqsOf(S, lo, hi) == UNION {[1..n -> S] : n \in lo..hi}

RECURSIVE Concat(_)
Concat(ss) == IF ss = <<>> THEN <<>> ELSE Head(ss) \o Concat(Tail(ss))

(***************************************************************************)
(* CHUNKING                                                                *)
(***************************************************************************)
DocumentIds == {"d1", "d2"}
MaxPages == 2
MaxWords == 2
MaxSections == 2
MaxParagraphs == 2
MaxTables == 2
MaxNodes == 2
WordLens == {1, 3}
ParaLens == {0, 3}
HeadingLens == {0, 2}
SlideWordLens == {3}
\* StructuralChunker.max_chunk_size, scaled down from its default of 2000
max_chunk_size == 4

\* a chunk id: f"{document_id}_{kind}_{num}" or f"{document_id}_{kind}_{num}_part_{part}"
ChunkId(doc, kind, num, part) ==
    [document_id |-> doc, kind |-> kind, num |-> num, part |-> part]
NoPart == -1

Chunk(id, text_len, chunk_type) ==
    [id |-> id, text_len |-> text_len, chunk_type |-> chunk_type]

\* One page dict.  PDFParser writes key "page_number", PptxParser writes
\* "slide_number" (and "title"); text is its words joined by single spaces.
PdfPages(n) ==
    {[i \in 1..n |-> [key |-> "page_number", number |-> i, title |-> FALSE,
                      words |-> w[i]]] :
        w \in [1..n -> SeqsOf(WordLens, 0, MaxWords)]}
PptxSlides(n) ==
    {[i \in 1..n |-> [key |-> "slide_number", number |-> i, title |-> w[i][1],
                      words |-> w[i][2]]] :
        w \in [1..n -> BOOLEAN \X SeqsOf(SlideWordLens, 1, MaxWords)]}

\* One section dict: a heading (length 0: none) and its content, given as the
\* lengths of the paragraphs that "\n".join(content) splits into at "\n\n".
Sections(n) ==
    [1..n -> [heading_len : HeadingLens,
              paras : {<<0>>} \cup SeqsOf(ParaLens \ {0}, 1, MaxParagraphs)]]

\* up to MaxTables tables, the last one with or without rows
Tables ==
    {<<>>} \cup {[i \in 1..n |-> [rows |-> IF i = n THEN r ELSE 1]] :
                    n \in 1..MaxTables, r \in 0..1}

PageTextLen(page) == JoinLen(page.words, 1)

\* PptxParser._build_sections
RECURSIVE _build_sections(_, _, _)
_build_sections(slides, current_section, sections) ==
    IF slides = <<>>
    THEN IF current_section # <<>> THEN sections \o current_section ELSE sections
    ELSE LET slide == Head(slides)
             fresh == <<[heading_len |-> 2, paras |-> <<PageTextLen(slide)>>]>>
         IN IF slide.title
            THEN _build_sections(Tail(slides), fresh,
                    IF current_section # <<>> THEN sections \o current_section
                    ELSE sections)
            ELSE IF current_section # <<>>
                 THEN _build_sections(Tail(slides),
                        <<[current_section[1] EXCEPT
                             !.paras = <<JoinLen(<<JoinLen(@, 2), PageTextLen(slide)>>, 1)>>]>>,
                        sections)
                 ELSE _build_sections(Tail(slides), fresh, sections)

\* The ParsedDocuments the parsers produce.  Tables come with documents of
\* at most one page or section.
TablesWith(parts) == IF Len(parts) <= 1 THEN Tables ELSE {<<>>}
PdfDocs(max_pages) ==
    UNION {{[parser |-> "pdf", pages |-> p, sections |-> <<>>, tables |-> t,
             text |-> IF p = <<>> THEN <<0>>
                      ELSE [i \in 1..Len(p) |-> PageTextLen(p[i])]] :
              t \in TablesWith(p)} :
           p \in UNION {PdfPages(n) : n \in 0..max_pages}}
PptxDocs(max_pages) ==
    UNION {{[parser |-> "pptx", pages |-> p,
             sections |-> _build_sections(p, <<>>, <<>>), tables |-> t,
             text |-> IF p = <<>> THEN <<0>>
                      ELSE [i \in 1..Len(p) |-> PageTextLen(p[i])]] :
              t \in TablesWith(p)} :
           p \in UNION {PptxSlides(n) : n \in 0..max_pages}}
DocxDocs(max_sections) ==
    UNION {{[parser |-> "docx", pages |-> <<>>, sections |-> s, tables |-> t,
             text |-> IF s = <<>> THEN <<0>>
                      ELSE [i \in 1..Len(s) |-> JoinLen(s[i].paras, 2)]] :
              t \in TablesWith(s)} :
           s \in UNION {Sections(n) : n \in 0..max_sections}}
TextDocs(max_paragraphs) ==
    {[parser |-> "text", pages |-> <<>>, sections |-> <<>>, tables |-> <<>>,
      text |-> x] : x \in SeqsOf(ParaLens, 1, max_paragraphs)}
ParsedDocuments(max_pages, max_sections, max_paragraphs) ==
    PdfDocs(max_pages) \cup PptxDocs(max_pages) \cup DocxDocs(max_sections)
        \cup TextDocs(max_paragraphs)

\* page.get("page_number", 1)
PageNumber(page) == IF page.key = "page_number" THEN page.number ELSE 1

\* StructuralChunker._chunk_page, the loop over the words of a large page:
\* the parts, each a sequence of word lengths
RECURSIVE PageSplit(_, _, _)
PageSplit(words, current_chunk, parts) ==
    IF words = <<>>
    THEN IF current_chunk # <<>> THEN Append(parts, current_chunk) ELSE parts
    ELSE LET word_length == Head(words) + 1
             current_length == SumSeq(current_chunk) + Len(current_chunk)
         IN IF current_length + word_length > max_chunk_size /\ current_chunk # <<>>
            THEN PageSplit(Tail(words), <<Head(words)>>, Append(parts, current_chunk))
            ELSE PageSplit(Tail(words), Append(current_chunk, Head(words)), parts)

_chunk_page(page, doc) ==
    LET page_num == PageNumber(page)
    IN IF PageTextLen(page) <= max_chunk_size
       THEN <<Chunk(ChunkId(doc, "page", page_num, NoPart), PageTextLen(page), "page")>>
       ELSE LET parts == PageSplit(page.words, <<>>, <<>>)
            IN [k \in 1..Len(parts) |->
                  Chunk(ChunkId(doc, "page", page_num, k - 1),
                        JoinLen(parts[k], 1), "page_part")]

\* StructuralChunker._chunk_section, the loop over the paragraphs of a large
\* section: the parts, each a sequence of piece lengths (heading or
\* "[Continued from: ...]" prefix first, when there is a heading)
RECURSIVE SectionSplit(_, _, _, _)
SectionSplit(paras, heading_len, current_chunk, parts) ==
    IF paras = <<>>
    THEN IF current_chunk # <<>> THEN Append(parts, current_chunk) ELSE parts
    ELSE LET para == Head(paras)
             current_length == SumSeq(current_chunk)
             continued == IF heading_len > 0 THEN <<heading_len + 18>> ELSE <<>>
         IN IF current_length + para > max_chunk_size /\ Len(current_chunk) > 1
            THEN SectionSplit(Tail(paras), heading_len, Append(continued, para),
                              Append(parts, current_chunk))
            ELSE SectionSplit(Tail(paras), heading_len, Append(current_chunk, para),
                              parts)

SectionTextLen(section) == JoinLen(section.paras, 2)
SectionFullLen(section) ==
    IF section.heading_len > 0
    THEN section.heading_len + 2 + SectionTextLen(section)
    ELSE SectionTextLen(section)

_chunk_section(section, doc, section_idx) ==
    IF SectionFullLen(section) <= max_chunk_size
    THEN <<Chunk(ChunkId(doc, "section", section_idx, NoPart),
                 SectionFullLen(section), "section")>>
    ELSE LET parts == SectionSplit(section.paras, section.heading_len,
                         IF section.heading_len > 0 THEN <<section.heading_len>> ELSE <<>>,
                         <<>>)
         IN [k \in 1..Len(parts) |->
               Chunk(ChunkId(doc, "section", section_idx, k - 1),
                     JoinLen(parts[k], 2), "section_part")]

\* StructuralChunker._chunk_text: the paragraph groups
RECURSIVE TextSplit(_, _, _)
TextSplit(paras, current_chunk, parts) ==
    IF paras = <<>>
    THEN IF current_chunk # <<>> THEN Append(parts, current_chunk) ELSE parts
    ELSE LET para == Head(paras)
             current_length == SumSeq(current_chunk)
         IN IF current_length + para > max_chunk_size /\ current_chunk # <<>>
            THEN TextSplit(Tail(paras), <<para>>, Append(parts, current_chunk))
            ELSE TextSplit(Tail(paras), Append(current_chunk, para), parts)

_chunk_text(text, doc) ==
    LET parts == TextSplit(text, <<>>, <<>>)
    IN [k \in 1..Len(parts) |->
          Chunk(ChunkId(doc, "chunk", k - 1, NoPart), JoinLen(parts[k], 2), "text")]

\* StructuralChunker._table_to_text: a header row, a separator and the rows,
\* "" for a table without rows
_table_to_text(table) == IF table.rows = 0 THEN 0 ELSE 5 * (table.rows + 1)

_chunk_tables(tables, doc) ==
    [i \in 1..Len(tables) |->
       Chunk(ChunkId(doc, "table", i - 1, NoPart), _table_to_text(tables[i]), "table")]

\* StructuralChunker.chunk_document
StructuralChunks(pd, doc) ==
    LET body ==
          IF pd.pages # <<>>
          THEN Concat([i \in 1..Len(pd.pages) |-> _chunk_page(pd.pages[i], doc)])
          ELSE IF pd.sections # <<>>
          THEN Concat([i \in 1..Len(pd.sections) |->
                         _chunk_section(pd.sections[i], doc, i - 1)])
          ELSE _chunk_text(pd.text, doc)
    IN IF pd.tables # <<>> THEN body \o _chunk_tables(pd.tables, doc) ELSE body

\* SemanticChunker.chunk_document: the sentence splitter (llama_index) returns
\* n nodes; chunk i gets id f"{document_id}_chunk_{i}"
SemanticChunks(doc, n) ==
    [i \in 1..n |-> Chunk(ChunkId(doc, "chunk", i - 1, NoPart), 1, "text")]

SectionIsBlank(section) == \A i \in 1..Len(section.paras) : section.paras[i] = 0

\* SemanticChunker.chunk_by_sections: nodes[i] is the number of nodes the
\* splitter returns for section i; blank sections are skipped
RECURSIVE SectionNodes(_, _, _)
SectionNodes(sections, nodes, i) ==
    IF i > Len(sections) THEN <<>>
    ELSE (IF SectionIsBlank(sections[i]) THEN <<>> ELSE [k \in 1..nodes[i] |-> i])
         \o SectionNodes(sections, nodes, i + 1)

SemanticSectionChunks(pd, doc, nodes) ==
    LET owner == SectionNodes(pd.sections, nodes, 1)
    IN [chunk_idx \in 1..Len(owner) |->
          Chunk(ChunkId(doc, "chunk", chunk_idx - 1, NoPart), 1, "text")]

ChunkInit ==
    /\ parsed_doc \in ParsedDocuments(MaxPages, MaxSections, MaxParagraphs)
    /\ document_id \in DocumentIds
    /\ chunks = <<>>
    /\ chunker = "none"

ChunkIdle ==
    /\ parsed_doc = [parser |-> "text", pages |-> <<>>, sections |-> <<>>,
                     tables |-> <<>>, text |-> <<0>>]
    /\ document_id = "d1"
    /\ chunks = <<>>
    /\ chunker = "none"

StructuralChunkDocument ==
    /\ chunks' = StructuralChunks(parsed_doc, document_id)
    /\ chunker' = "structural"
    /\ UNCHANGED <<parsed_doc, document_id>>

SemanticChunkDocument ==
    \E n \in 0..MaxNodes :
        /\ chunks' = SemanticChunks(document_id, n)
        /\ chunker' = "semantic"
        /\ UNCHANGED <<parsed_doc, document_id>>

SemanticChunkBySections ==
    /\ IF parsed_doc.sections = <<>>
       THEN \E n \in 0..MaxNodes : chunks' = SemanticChunks(document_id, n)
       ELSE \E nodes \in [1..Len(parsed_doc.sections) -> {0, 1, MaxNodes}] :
                chunks' = SemanticSectionChunks(parsed_doc, document_id, nodes)
    /\ chunker' = "semantic_sections"
    /\ UNCHANGED <<parsed_doc, document_id>>

ChunkNext ==
    \/ StructuralChunkDocument /\ UNCHANGED chunkRest
    \/ SemanticChunkDocument /\ UNCHANGED chunkRest
    \/ SemanticChunkBySections /\ UNCHANGED chunkRest

(***************************************************************************)
(* INDEXING AND RETRIEVAL                                                  *)
(*                                                                         *)
(* The embedding model and the texts are outside the program: Similarity,  *)
(* ExactMatch, Coverage, speaker_role and CrossEncoderScore fix one        *)
(* embedding and one set of texts over the small universe of chunks and    *)
(* queries.  Scores are in units of 0.05.                                  *)
(***************************************************************************)
Companies == {"c1", "c2"}
Queries == {"q1", "q2"}
MaxTopK == 2
MaxWindow == 1

\* f"company_{company_id}"
\* a variant in which every company shares one collection
shared_collection_name(company_id) == <<"company_", "all">>
collection_name(company_id) == <<"company_", company_id>>

\* TextNode(id_=chunk.id, metadata={..., "company_id", "document_id"})
TextNode(chunk, company_id, doc) ==
    [id |-> chunk.id, metadata |-> [company_id |-> company_id, document_id |-> doc]]

RetrievalResult(chunk_id, score, metadata, doc) ==
    [chunk_id |-> chunk_id, score |-> score, metadata |-> metadata, document_id |-> doc]

DocRank(doc) == IF doc = "d1" THEN 0 ELSE 1
\* the order of chunk ids as strings, for chunk numbers below 10
IdKey(id) == 10 * DocRank(id.document_id) + id.num

Similarity(query, node) ==
    IF query = "q1" THEN 12 + 2 * node.id.num - 2 * DocRank(node.id.document_id)
    ELSE 14 - 4 * node.id.num
ExactMatch(query, r) == query = "q1" /\ r.chunk_id.num = 0
Coverage(query, r) == IF query = "q2" THEN r.chunk_id.num % 2 ELSE 2
speaker_role(r) == IF r.document_id = "d2" THEN "CEO" ELSE "Analyst"
CrossEncoderScore(query, r) ==
    IF query = "q1" THEN 3 * r.chunk_id.num + DocRank(r.document_id)
    ELSE 7 - DocRank(r.document_id)

\* sorted(results, key=lambda r: r.score, reverse=True): stable
RECURSIVE InsertByScore(_, _)
InsertByScore(r, sorted) ==
    IF sorted = <<>> THEN <<r>>
    ELSE IF Head(sorted).score >= r.score
         THEN <<Head(sorted)>> \o InsertByScore(r, Tail(sorted))
         ELSE <<r>> \o sorted

RECURSIVE SortedByScore(_)
SortedByScore(rs) ==
    IF rs = <<>> THEN <<>>
    ELSE InsertByScore(rs[Len(rs)], SortedByScore(SubSeq(rs, 1, Len(rs) - 1)))

\* sorted(results, key=lambda r: r.chunk_id)
RECURSIVE InsertByChunkId(_, _)
InsertByChunkId(r, sorted) ==
    IF sorted = <<>> THEN <<r>>
    ELSE IF IdKey(Head(sorted).chunk_id) <= IdKey(r.chunk_id)
         THEN <<Head(sorted)>> \o InsertByChunkId(r, Tail(sorted))
         ELSE <<r>> \o sorted

RECURSIVE SortedByChunkId(_)
SortedByChunkId(rs) ==
    IF rs = <<>> THEN <<>>
    ELSE InsertByChunkId(rs[Len(rs)], SortedByChunkId(SubSeq(rs, 1, Len(rs) - 1)))

Truncate(s, n) == SubSeq(s, 1, IF Len(s) < n THEN Len(s) ELSE n)

\* the nodes of a set, in the order the store keeps them
RECURSIVE NodesInOrder(_)
NodesInOrder(S) ==
    IF S = {} THEN <<>>
    ELSE LET first == CHOOSE n \in S : \A m \in S : IdKey(n.id) <= IdKey(m.id)
         IN <<first>> \o NodesInOrder(S \ {first})

\* VectorStoreManager.get_or_create_collection on the ChromaDB client
get_or_create_collection(cols, name) ==
    IF name \in DOMAIN cols THEN cols ELSE (name :> {}) @@ cols

\* VectorIndexRetriever.retrieve: the similarity_top_k nearest nodes of the
\* collection that pass the document_id filter, nearest first
VectorSearch(nodes, query, similarity_top_k, document_ids) ==
    LET matching == {n \in nodes :
                        document_ids = {} \/ n.metadata.document_id \in document_ids}
        scored == [i \in 1..Cardinality(matching) |->
                     LET n == NodesInOrder(matching)[i]
                     IN RetrievalResult(n.id, Similarity(query, n), n.metadata,
                                        n.metadata.document_id)]
    IN Truncate(SortedByScore(scored), similarity_top_k)

\* the min_score filter of HybridRetriever.retrieve
\* a variant that also drops a score equal to min_score
FilterAbove(rs, min_score) == SelectSeq(rs, LAMBDA r : r.score > min_score)
RECURSIVE FilterMinScore(_, _)
FilterMinScore(rs, min_score) ==
    IF rs = <<>> THEN <<>>
    ELSE IF Head(rs).score # 0 /\ Head(rs).score < min_score
         THEN FilterMinScore(Tail(rs), min_score)
         ELSE <<Head(rs)>> \o FilterMinScore(Tail(rs), min_score)

\* Reranker._rerank_with_model
_rerank_with_model(query, rs, top_k) ==
    Truncate(SortedByScore([i \in 1..Len(rs) |->
        [rs[i] EXCEPT !.score = CrossEncoderScore(query, rs[i])]]), top_k)

\* Reranker._rerank_heuristic: +0.2 exact phrase, +0.1 * coverage, +0.1 role
_rerank_heuristic(query, rs, top_k) ==
    Truncate(SortedByScore([i \in 1..Len(rs) |->
        [rs[i] EXCEPT !.score =
            @ + (IF ExactMatch(query, rs[i]) THEN 4 ELSE 0)
              + Coverage(query, rs[i])
              + (IF speaker_role(rs[i]) \in {"CEO", "CFO", "President"} THEN 2 ELSE 0)]]),
        top_k)

\* Reranker.rerank
rerank(query, rs, top_k, has_model) ==
    IF rs = <<>> THEN <<>>
    ELSE IF has_model THEN _rerank_with_model(query, rs, top_k)
    ELSE _rerank_heuristic(query, rs, top_k)

\* the top_k HybridRetriever.retrieve passes to _build_retriever
similarity_top_k(top_k, use_reranker) ==
    IF use_reranker THEN top_k * 2 ELSE top_k

\* HybridRetriever.retrieve, on the collection of the company
retrieve(cols, query, company_id, top_k, document_ids, min_score, use_reranker, has_model) ==
    LET nodes == VectorSearch(cols[collection_name(company_id)], query,
                     similarity_top_k(top_k, use_reranker), document_ids)
        found == FilterMinScore(nodes, min_score)
        ranked == IF use_reranker /\ Len(found) > 0
                  THEN rerank(query, found, top_k, has_model) ELSE found
    IN Truncate(ranked, top_k)

\* VectorStoreManager.get_by_metadata with filter {"document_id": ...}
get_by_metadata(cols, name, doc) ==
    IF name \notin DOMAIN cols THEN <<>>
    ELSE NodesInOrder({n \in cols[name] : n.metadata.document_id = doc})

\* HybridRetriever.get_context_window, for chunk_id f"{doc}_chunk_{center}"
RECURSIVE ContextWindow(_, _, _, _, _, _)
ContextWindow(cols, doc, company_id, center, i, last) ==
    IF i > last THEN <<>>
    ELSE LET chunk_results == get_by_metadata(cols, collection_name(company_id), doc)
             hits == {k \in 1..Len(chunk_results) :
                         chunk_results[k].id = ChunkId(doc, "chunk", i, NoPart)}
         IN (IF hits = {} THEN <<>>
             ELSE LET chunk == chunk_results[CHOOSE k \in hits : TRUE]
                  IN <<RetrievalResult(chunk.id, IF i = center THEN 20 ELSE 18,
                                       chunk.metadata, doc)>>)
            \o ContextWindow(cols, doc, company_id, center, i + 1, last)

get_context_window(cols, doc, company_id, center, window_size) ==
    SortedByChunkId(ContextWindow(cols, doc, company_id, center,
                                  center - window_size, center + window_size))

\* the arguments of a retrieve call besides company_id and top_k, with the
\* top_k it asked the index for
NoArgs == [query |-> "none", document_ids |-> {}, min_score |-> 0,
           use_reranker |-> FALSE, similarity_top_k |-> 0]
\* min_score: its default 0.0, or 0.7
MinScores == {0, 14}

IndexInit ==
    /\ collections = <<>>
    /\ _indices = {}
    /\ results = <<>>
    /\ retrieval_call = [op |-> "none", company_id |-> "none", top_k |-> 0,
                         args |-> NoArgs]

IndexIdle == IndexInit

\* the number of nodes the splitter returns for a document's text
NodeCount(doc) == IF doc = "d1" THEN MaxNodes ELSE 1

\* IndexManager.index_chunks, for the chunks of a semantic chunking of doc
IndexChunks(company_id, doc) ==
    /\ collections' =
         LET cols == get_or_create_collection(collections, collection_name(company_id))
             n == NodeCount(doc)
             nodes == {TextNode(SemanticChunks(doc, n)[i], company_id, doc) : i \in 1..n}
         IN [cols EXCEPT ![collection_name(company_id)] = @ \cup nodes]
    /\ _indices' = _indices \cup {company_id}
    /\ UNCHANGED <<results, retrieval_call>>

\* HybridRetriever.retrieve and retrieve_for_document (document_ids = [doc])
Retrieve(query, company_id, top_k, document_ids, min_score, use_reranker, has_model) ==
    LET cols == get_or_create_collection(collections, collection_name(company_id))
    IN /\ collections' = cols
       /\ _indices' = _indices \cup {company_id}
       /\ results' = retrieve(cols, query, company_id, top_k, document_ids,
                              min_score, use_reranker, has_model)
       /\ retrieval_call' =
            [op |-> "retrieve", company_id |-> company_id, top_k |-> top_k,
             args |-> [query |-> query, document_ids |-> document_ids,
                       min_score |-> min_score, use_reranker |-> use_reranker,
                       similarity_top_k |->
                           similarity_top_k(top_k, use_reranker)]]

\* HybridRetriever.retrieve_multi_query: per chunk the higher score, then sorted
RECURSIVE MergeMulti(_, _)
MergeMulti(all_results, rs) ==
    IF rs = <<>> THEN all_results
    ELSE LET r == Head(rs)
             at == {k \in 1..Len(all_results) : all_results[k].chunk_id = r.chunk_id}
         IN MergeMulti(
              IF at = {} THEN Append(all_results, r)
              ELSE LET k == CHOOSE k \in at : TRUE
                   IN IF r.score > all_results[k].score
                      THEN [all_results EXCEPT ![k] = r] ELSE all_results,
              Tail(rs))

RetrieveMultiQuery(queries, company_id, top_k, use_reranker, has_model) ==
    LET cols == get_or_create_collection(collections, collection_name(company_id))
        per_query == [i \in 1..Len(queries) |->
                        retrieve(cols, queries[i], company_id, top_k, {}, 0,
                                 use_reranker, has_model)]
    IN /\ collections' = cols
       /\ _indices' = _indices \cup {company_id}
       /\ results' = Truncate(SortedByScore(MergeMulti(<<>>, Concat(per_query))), top_k)
       /\ retrieval_call' = [op |-> "retrieve_multi_query", company_id |-> company_id,
                             top_k |-> top_k, args |-> NoArgs]

GetContextWindow(doc, company_id, center, window_size) ==
    /\ results' = get_context_window(collections, doc, company_id, center, window_size)
    /\ retrieval_call' = [op |-> "get_context_window", company_id |-> company_id,
                          top_k |-> 0, args |-> NoArgs]
    /\ UNCHANGED <<collections, _indices>>

\* no reranker; a Reranker without a model (heuristic); one with a cross-encoder
RerankerSetups ==
    {[use_reranker |-> FALSE, has_model |-> FALSE],
     [use_reranker |-> TRUE, has_model |-> FALSE],
     [use_reranker |-> TRUE, has_model |-> TRUE]}

IndexNext ==
    \/ \E c \in Companies, d \in DocumentIds : IndexChunks(c, d) /\ UNCHANGED indexRest
    \/ \E q \in Queries, c \in Companies, k \in 1..MaxTopK,
          ds \in {{}} \cup {{d} : d \in DocumentIds}, m \in MinScores,
          rr \in RerankerSetups :
            Retrieve(q, c, k, ds, m, rr.use_reranker, rr.has_model)
                /\ UNCHANGED indexRest
    \/ \E c \in Companies, k \in 1..MaxTopK, rr \in RerankerSetups :
            RetrieveMultiQuery(<<"q1", "q2">>, c, k, rr.use_reranker, rr.has_model)
                /\ UNCHANGED indexRest
    \/ \E c \in Companies, d \in DocumentIds, i \in 0..MaxNodes, w \in 0..MaxWindow :
            GetContextWindow(d, c, i, w) /\ UNCHANGED indexRest

(***************************************************************************)
(* DOCUMENT UPLOAD                                                         *)
(***************************************************************************)
Contents == {"x", "y"}
Filenames == {"report.pdf", "notes.txt", "data.xyz"}

\* hashlib.sha256(content).hexdigest(): distinct contents, distinct hashes
compute_file_hash(content) == <<"sha256", content>>

\* utils.validators.get_document_type: None for an extension off the list
get_document_type(filename) ==
    CASE filename = "report.pdf" -> "pdf"
      [] filename = "notes.txt" -> "txt"
      [] OTHER -> "None"

\* DocumentRepository.get_by_hash: scalar_one_or_none() over the rows with
\* this hash, whatever their company; it raises when there are several
get_by_hash(rows, content_hash) ==
    LET found == {d \in rows : d.content_hash = content_hash}
    IN IF Cardinality(found) > 1
       THEN [raised |-> "MultipleResultsFound", rows |-> {}]
       ELSE [raised |-> "no", rows |-> found]

UploadInit ==
    /\ documents = {}
    /\ storage_saves = 0
    /\ upload_last = [company_id |-> "none", content_hash |-> <<"sha256", "none">>,
                      outcome |-> "none", document_id |-> 0, saved |-> FALSE]

UploadIdle == UploadInit

\* DocumentService.upload_document
UploadDocument(company_id, filename, content) ==
    LET content_hash == compute_file_hash(content)
        existing == get_by_hash(documents, content_hash)
        file_type == get_document_type(filename)
        new_id == Cardinality(documents) + 1
        ended(outcome, id, saved) ==
            upload_last' = [company_id |-> company_id, content_hash |-> content_hash,
                            outcome |-> outcome, document_id |-> id, saved |-> saved]
    IN IF existing.raised # "no"
       THEN /\ ended(existing.raised, 0, FALSE)
            /\ UNCHANGED <<documents, storage_saves>>
       ELSE IF \E row \in existing.rows : row.company_id = company_id
       THEN /\ ended("ValidationError", 0, FALSE)
            /\ UNCHANGED <<documents, storage_saves>>
       ELSE IF file_type = "None"
       THEN /\ ended("ValidationError", 0, FALSE)
            /\ UNCHANGED <<documents, storage_saves>>
       ELSE /\ storage_saves' = storage_saves + 1
            /\ documents' = documents \cup
                 {[id |-> new_id, company_id |-> company_id, filename |-> filename,
                   file_type |-> file_type, content_hash |-> content_hash,
                   status |-> "pending"]}
            /\ ended("created", new_id, TRUE)

UploadNext ==
    \E c \in Companies, f \in Filenames, x \in Contents :
        UploadDocument(c, f, x) /\ UNCHANGED uploadRest

(***************************************************************************)
(* DEDUPLICATION                                                           *)
(*                                                                         *)
(* An initiative dict is a record; a key the dict lacks is "None" (or 0,   *)
(* or <<>>).  `text` stands for its name and description.  Confidences are *)
(* in units of 0.1.                                                        *)
(***************************************************************************)
Texts == {"t1", "t2", "t3"}
Sources == {"s1", "s2"}
MaxCandidates == 3
MaxGroup == 3
MaxBatchSize == 2
\* the interpreter's recursion limit, scaled down; above MaxCandidates, so
\* that only a recursion that makes no progress reaches it
RecursionLimit == 4
\* InitiativeDeduplicator.similarity_threshold = 0.7
similarity_threshold == 7

Initiative(text, confidence, category, source_chunk_id) ==
    [text |-> text, confidence |-> confidence, category |-> category,
     source_chunk_id |-> source_chunk_id, source_chunk_ids |-> <<>>,
     merged_count |-> 0]

\* the words of f"{name}: {description}", lower-cased
WordsOf(text) ==
    CASE text = "t1" -> {"ai", "platform", "launch", "in", "q1"}
      [] text = "t2" -> {"ai", "platform", "launch", "in", "q1", "2025"}
      [] OTHER -> {"european", "expansion"}

\* InitiativeDeduplicator._simple_compare: Jaccard similarity of the word sets
_simple_compare(text_a, text_b) ==
    LET words_a == WordsOf(text_a)
        words_b == WordsOf(text_b)
        intersection == Cardinality(words_a \cap words_b)
        union == Cardinality(words_a \cup words_b)
    IN IF words_a = {} \/ words_b = {} THEN FALSE
       ELSE 10 * intersection >= similarity_threshold * union

\* What the comparator (the reasoning model) answers for a pair of texts.
ComparatorAnswers ==
    {[raised |-> FALSE, is_duplicate |-> TRUE, similarity_score |-> 8],
     [raised |-> FALSE, is_duplicate |-> TRUE, similarity_score |-> 6]}
DistinctPairs == {p \in Texts \X Texts : p[1] # p[2]}
\* The judgments: any mix of the two answers above, or a comparator that
\* never finds a duplicate, or one whose every call raises.
Judgments ==
    [DistinctPairs -> ComparatorAnswers]
        \cup {[p \in DistinctPairs |->
                 [raised |-> FALSE, is_duplicate |-> FALSE, similarity_score |-> 9]],
              [p \in DistinctPairs |->
                 [raised |-> TRUE, is_duplicate |-> FALSE, similarity_score |-> 0]]}
\* on two equal texts the model answers "duplicate, 1.0"
Answer(judgment, text_a, text_b) ==
    IF text_a = text_b
    THEN [raised |-> FALSE, is_duplicate |-> TRUE, similarity_score |-> 10]
    ELSE judgment[<<text_a, text_b>>]

\* InitiativeDeduplicator._compare_initiatives (the boolean of its result)
_compare_initiatives(judgment, init_a, init_b) ==
    LET result == Answer(judgment, init_a.text, init_b.text)
    IN IF result.raised THEN _simple_compare(init_a.text, init_b.text)
       ELSE result.is_duplicate /\ result.similarity_score >= similarity_threshold

RECURSIVE IndicesInOrder(_)
IndicesInOrder(S) ==
    IF S = {} THEN <<>>
    ELSE LET least == CHOOSE i \in S : \A j \in S : i <= j
         IN <<least>> \o IndicesInOrder(S \ {least})

\* InitiativeDeduplicator._find_duplicate_groups
RECURSIVE FindGroups(_, _, _, _, _)
FindGroups(judgment, initiatives, i, grouped, groups) ==
    IF i > Len(initiatives) THEN groups
    ELSE IF i \in grouped THEN FindGroups(judgment, initiatives, i + 1, grouped, groups)
    ELSE LET joined == {j \in (i + 1)..Len(initiatives) :
                          /\ j \notin grouped
                          /\ _compare_initiatives(judgment, initiatives[i], initiatives[j])}
             order == IndicesInOrder(joined)
             group == <<initiatives[i]>> \o [k \in 1..Len(order) |-> initiatives[order[k]]]
         IN FindGroups(judgment, initiatives, i + 1, grouped \cup {i} \cup joined,
                       Append(groups, group))

\* a variant that opens a group for every candidate, grouped or not
UngroupedGroups(judgment, initiatives) ==
    [i \in 1..Len(initiatives) |->
        LET joined == {j \in (i + 1)..Len(initiatives) :
                          _compare_initiatives(judgment, initiatives[i],
                                               initiatives[j])}
            order == IndicesInOrder(joined)
        IN <<initiatives[i]>>
               \o [k \in 1..Len(order) |-> initiatives[order[k]]]]
_find_duplicate_groups(judgment, initiatives) ==
    FindGroups(judgment, initiatives, 1, {}, <<>>)

\* _merge_group, the loop that collects sources, confidence and category
RECURSIVE Collect(_, _)
Collect(group, acc) ==
    IF group = <<>> THEN acc
    ELSE LET init == Head(group)
             sources == IF init.source_chunk_id # "None"
                        THEN Append(acc.all_sources, init.source_chunk_id)
                        ELSE acc.all_sources
         IN Collect(Tail(group),
              IF init.confidence > acc.highest_confidence
              THEN [all_sources |-> sources, highest_confidence |-> init.confidence,
                    best_category |-> init.category]
              ELSE [acc EXCEPT !.all_sources = sources])

RECURSIVE SourceIdsOf(_)
SourceIdsOf(group) ==
    IF group = <<>> THEN <<>>
    ELSE (IF Head(group).source_chunk_id # "None"
          THEN <<Head(group).source_chunk_id>> ELSE <<>>) \o SourceIdsOf(Tail(group))

\* the fallback of _merge_group, when the merge call raised
MergeFallback(group) ==
    [group[1] EXCEPT !.merged_count = Len(group),
                     !.source_chunk_ids = SourceIdsOf(group)]

\* the result of _merge_group when the merge call returned canonical_name
MergeWithModel(group, canonical) ==
    LET got == Collect(group, [all_sources |-> <<>>, highest_confidence |-> 0,
                               best_category |-> group[1].category])
    IN [text |-> canonical, confidence |-> got.highest_confidence,
        category |-> got.best_category, source_chunk_id |-> "None",
        source_chunk_ids |-> got.all_sources, merged_count |-> Len(group)]

\* InitiativeDeduplicator._merge_group; outcome is what the merge call did:
\* "raise", or the canonical text it proposed
MergerOutcomes == Texts \cup {"raise"}
_merge_group(group, outcome) ==
    IF Len(group) = 1 THEN group[1]
    ELSE IF outcome = "raise" THEN MergeFallback(group)
    ELSE MergeWithModel(group, outcome)

\* InitiativeDeduplicator.forward; outcomes[k] is the outcome of the k-th
\* merge call
RECURSIVE MergeGroups(_, _, _)
MergeGroups(groups, outcomes, k) ==
    IF groups = <<>> THEN <<>>
    ELSE IF Len(Head(groups)) = 1
         THEN <<Head(groups)[1]>> \o MergeGroups(Tail(groups), outcomes, k)
         ELSE <<_merge_group(Head(groups),
                             outcomes[IF k <= Len(outcomes) THEN k ELSE Len(outcomes)])>>
              \o MergeGroups(Tail(groups), outcomes, k + 1)

forward(judgment, initiatives, outcomes) ==
    IF initiatives = <<>> THEN <<>>
    ELSE MergeGroups(_find_duplicate_groups(judgment, initiatives), outcomes, 1)

MaxMerges == MaxCandidates \div 2
OutcomeLists == [1..MaxMerges -> MergerOutcomes]

CandidateLists(max_candidates) ==
    SeqsOf({Initiative(t, 5, "product", "s1") : t \in Texts}, 0, max_candidates)

DedupInit ==
    /\ comparator \in Judgments
    /\ candidates \in CandidateLists(MaxCandidates)
    /\ first_pass = <<>>
    /\ second_pass = <<>>
    /\ dedup_pc = "start"
    /\ batch_items = <<>>
    /\ batch_size = 0
    /\ batch_depth = 0
    /\ batch_pc = "idle"

DedupIdle ==
    /\ comparator = <<>>
    /\ candidates = <<>>
    /\ first_pass = <<>>
    /\ second_pass = <<>>
    /\ dedup_pc = "start"
    /\ batch_items = <<>>
    /\ batch_size = 0
    /\ batch_depth = 0
    /\ batch_pc = "idle"

batchVars == <<batch_items, batch_size, batch_depth, batch_pc>>

\* forward(candidates)
Forward ==
    /\ dedup_pc = "start"
    /\ batch_pc = "idle"
    /\ \E outcomes \in OutcomeLists :
          first_pass' = forward(comparator, candidates, outcomes)
    /\ dedup_pc' = "first"
    /\ UNCHANGED <<comparator, candidates, second_pass, batchVars>>

\* forward over the output of the first call
ForwardAgain ==
    /\ dedup_pc = "first"
    /\ \E outcomes \in OutcomeLists :
          second_pass' = forward(comparator, first_pass, outcomes)
    /\ dedup_pc' = "second"
    /\ UNCHANGED <<comparator, candidates, first_pass, batchVars>>

\* deduplicate_batch(candidates, size): the call is made
DeduplicateBatch(size) ==
    /\ batch_pc = "idle"
    /\ dedup_pc = "start"
    /\ batch_items' = candidates
    /\ batch_size' = size
    /\ batch_depth' = 1
    /\ batch_pc' = "running"
    /\ UNCHANGED <<comparator, candidates, first_pass, second_pass, dedup_pc>>

\* initiatives[i:i + batch_size] for i in range(0, len(initiatives), batch_size)
Batches(initiatives, size) ==
    [b \in 1..((Len(initiatives) + size - 1) \div size) |->
        SubSeq(initiatives, (b - 1) * size + 1,
               IF b * size < Len(initiatives) THEN b * size ELSE Len(initiatives))]

\* one call of deduplicate_batch: it returns, or calls itself on all_merged
DeduplicateBatchBody ==
    /\ batch_pc = "running"
    /\ \E outcomes \in OutcomeLists :
         IF Len(batch_items) <= batch_size
         THEN /\ batch_items' = forward(comparator, batch_items, outcomes)
              /\ batch_pc' = "done"
              /\ UNCHANGED batch_depth
         ELSE LET batches == Batches(batch_items, batch_size)
                  all_merged == Concat([b \in 1..Len(batches) |->
                                          forward(comparator, batches[b], outcomes)])
              IN IF Len(all_merged) > batch_size
                 THEN IF batch_depth >= RecursionLimit
                      THEN /\ batch_pc' = "RecursionError"
                           /\ UNCHANGED <<batch_items, batch_depth>>
                      ELSE /\ batch_items' = all_merged
                           /\ batch_depth' = batch_depth + 1
                           /\ UNCHANGED batch_pc
                 ELSE /\ batch_items' = forward(comparator, all_merged, outcomes)
                      /\ batch_pc' = "done"
                      /\ UNCHANGED batch_depth
    /\ UNCHANGED <<comparator, candidates, first_pass, second_pass, dedup_pc, batch_size>>

DedupNext ==
    \/ Forward /\ UNCHANGED dedupRest
    \/ ForwardAgain /\ UNCHANGED dedupRest
    \/ \E size \in 1..MaxBatchSize : DeduplicateBatch(size) /\ UNCHANGED dedupRest
    \/ DeduplicateBatchBody /\ UNCHANGED dedupRest

(***************************************************************************)
(* _merge_group on its own                                                 *)
(***************************************************************************)
Confidences == {0, 5, 9}
Categories == {"product", "market"}
GroupsToMerge(max_group) ==
    SeqsOf({Initiative("t1", c, g, s) :
               c \in Confidences, g \in Categories, s \in Sources \cup {"None"}},
           2, max_group)

MergeInit ==
    /\ merge_group_in \in GroupsToMerge(MaxGroup)
    /\ merge_result = <<>>

MergeIdle ==
    /\ merge_group_in = <<>>
    /\ merge_result = <<>>

MergeGroup(outcome) ==
    /\ merge_result' = <<[merger |-> IF outcome = "raise" THEN "raised" ELSE "returned",
                          item |-> _merge_group(merge_group_in, outcome)]>>
    /\ UNCHANGED merge_group_in

MergeNext ==
    \E outcome \in MergerOutcomes : MergeGroup(outcome) /\ UNCHANGED mergeRest

(***************************************************************************)
(* JOB QUEUE                                                               *)
(*                                                                         *)
(* job_objs holds every Job object ever constructed, in order of           *)
(* construction; _jobs maps a job id to the object the dict holds for it.  *)
(* `handled` counts the handler invocations on the object and handler_exit *)
(* records how the last one ended; neither is a field of Job.              *)
(***************************************************************************)
JobIds == {"j1", "j2"}
\* register_job_handlers registers the first two
JobTypes == {"process_document", "run_analysis", "unregistered"}
_handlers == {"process_document", "run_analysis"}
ExceptionMessages == {"boom"}
ProgressReports == {50, 150}
MaxJobs == 2
MaxWorkers == 2

PENDING == "pending"
PROCESSING == "processing"
COMPLETED == "completed"
FAILED == "failed"

Job(id, type) ==
    [id |-> id, type |-> type, status |-> PENDING, progress |-> 0,
     error_message |-> "None", started_at |-> FALSE, completed_at |-> FALSE,
     handled |-> 0, handler_exit |-> "none"]

Worker(state, job) == [state |-> state, job |-> job]

JobsInit ==
    /\ job_objs = <<>>
    /\ _jobs = <<>>
    /\ _queue = <<>>
    /\ _running = FALSE
    /\ _workers = <<>>

JobsIdle == JobsInit

\* JobQueue.enqueue
Enqueue(job_id, job_type) ==
    /\ Len(job_objs) < MaxJobs
    /\ job_objs' = Append(job_objs, Job(job_id, job_type))
    /\ _jobs' = (job_id :> (Len(job_objs) + 1)) @@ _jobs
    /\ _queue' = Append(_queue, job_id)
    /\ UNCHANGED <<_running, _workers>>

\* JobQueue.start
Start(num_workers) ==
    /\ Len(_workers) + num_workers <= MaxWorkers
    /\ _running' = TRUE
    /\ _workers' = _workers \o [i \in 1..num_workers |-> Worker("waiting", 0)]
    /\ UNCHANGED <<job_objs, _jobs, _queue>>

\* JobQueue.stop: every worker task is cancelled.  CancelledError raised in
\* a handler is not an Exception: only the finally clause of _worker runs.
Stop ==
    /\ _running' = FALSE
    /\ job_objs' = [o \in 1..Len(job_objs) |->
                      IF \E w \in 1..Len(_workers) :
                            _workers[w].state = "handling" /\ _workers[w].job = o
                      THEN [job_objs[o] EXCEPT !.completed_at = TRUE,
                                               !.handler_exit = "cancelled"]
                      ELSE job_objs[o]]
    /\ _workers' = <<>>
    /\ UNCHANGED <<_jobs, _queue>>

\* _worker: a job id comes off the queue, up to the call of the handler
WorkerGet(w) ==
    /\ _running
    /\ _workers[w].state = "waiting"
    /\ _queue # <<>>
    /\ LET job_id == Head(_queue)
           job == _jobs[job_id]
       IN /\ _queue' = Tail(_queue)
          /\ IF job_objs[job].type \notin _handlers
             THEN /\ job_objs' = [job_objs EXCEPT ![job].status = FAILED,
                                                  ![job].error_message = "No handler"]
                  /\ UNCHANGED _workers
             ELSE /\ job_objs' = [job_objs EXCEPT ![job].status = PROCESSING,
                                                  ![job].started_at = TRUE,
                                                  ![job].handled = @ + 1,
                                                  ![job].handler_exit = "none"]
                  /\ _workers' = [_workers EXCEPT ![w] = Worker("handling", job)]
    /\ UNCHANGED <<_jobs, _running>>

\* _worker: the handler returned
HandlerReturn(w) ==
    /\ _workers[w].state = "handling"
    /\ LET job == _workers[w].job
       IN job_objs' = [job_objs EXCEPT ![job].status = COMPLETED,
                                       ![job].progress = 100,
                                       ![job].completed_at = TRUE,
                                       ![job].handler_exit = "returned"]
    /\ _workers' = [_workers EXCEPT ![w] = Worker("waiting", 0)]
    /\ UNCHANGED <<_jobs, _queue, _running>>

\* _worker: the handler raised an Exception
HandlerRaise(w, message) ==
    /\ _workers[w].state = "handling"
    /\ LET job == _workers[w].job
       IN job_objs' = [job_objs EXCEPT ![job].status = FAILED,
                                       ![job].error_message = message,
                                       ![job].completed_at = TRUE,
                                       ![job].handler_exit = "raised"]
    /\ _workers' = [_workers EXCEPT ![w] = Worker("waiting", 0)]
    /\ UNCHANGED <<_jobs, _queue, _running>>

\* JobQueue.update_progress, as the handlers call it: by the id of their job
UpdateProgress(w, progress) ==
    /\ _workers[w].state = "handling"
    /\ LET job == _jobs[job_objs[_workers[w].job].id]
           low == IF progress > 0 THEN progress ELSE 0
       IN job_objs' = [job_objs EXCEPT
                         ![job].progress = IF low < 100 THEN low ELSE 100]
    /\ UNCHANGED <<_jobs, _queue, _running, _workers>>

JobsNext ==
    \/ \E job_id \in JobIds, job_type \in JobTypes : Enqueue(job_id, job_type) /\ UNCHANGED jobsRest
    \/ \E num_workers \in 1..MaxWorkers : Start(num_workers) /\ UNCHANGED jobsRest
    \/ Stop /\ UNCHANGED jobsRest
    \/ \E w \in 1..Len(_workers) : WorkerGet(w) /\ UNCHANGED jobsRest
    \/ \E w \in 1..Len(_workers) : HandlerReturn(w) /\ UNCHANGED jobsRest
    \/ \E w \in 1..Len(_workers), message \in ExceptionMessages : HandlerRaise(w, message) /\ UNCHANGED jobsRest
    \/ \E w \in 1..Len(_workers), progress \in ProgressReports : UpdateProgress(w, progress) /\ UNCHANGED jobsRest

(***************************************************************************)
(* ANALYSIS PIPELINE                                                       *)
(*                                                                         *)
(* AnalysisService.run_analysis.  Steps 1 to 3 (retrieve, extract per      *)
(* chunk, deduplicate) run in the action that starts the run; step 4       *)
(* stores one item of `deduplicated` per step, as the loop does between    *)
(* two awaits; the last step marks the analysis completed.  Runs and       *)
(* clear_insights calls are made one after the other; the clock advances   *)
(* between two reads.  A row id is the row's position in its table.  Names *)
(* are the texts of the deduplication model; all are shorter than 50       *)
(* characters, so name[:50] is the name.                                   *)
(***************************************************************************)
AnalysisIds == {"a1", "a2"}
MaxChunks == 2

\* InitiativeModel.mention_count: default=1
mention_count_default == 1

\* what extractor.extract(chunk) does for one chunk: it raises, or returns
\* the candidates of the chunk
Extractions ==
    {Initiative("t1", 5, "product", "s1"), Initiative("t2", 5, "product", "s1"),
     Initiative("t1", 5, "market", "s1")}
ChunkOutcomes ==
    {[raised |-> TRUE, extracted |-> <<>>]}
        \cup {[raised |-> FALSE, extracted |-> <<c>>] : c \in Extractions}
ExtractionRuns(max_chunks) == SeqsOf(ChunkOutcomes, 0, max_chunks)

\* the loop of step 2: a chunk whose extraction raised adds nothing
RECURSIVE ExtractAll(_)
ExtractAll(outcomes) ==
    IF outcomes = <<>> THEN <<>>
    ELSE (IF Head(outcomes).raised THEN <<>> ELSE Head(outcomes).extracted)
         \o ExtractAll(Tail(outcomes))

\* the comparators of a run: every pair a duplicate with similarity 0.8,
\* no pair a duplicate, or every call raising (the Jaccard fallback decides)
AnalysisJudgments ==
    {[p \in DistinctPairs |->
        [raised |-> FALSE, is_duplicate |-> TRUE, similarity_score |-> 8]],
     [p \in DistinctPairs |->
        [raised |-> FALSE, is_duplicate |-> FALSE, similarity_score |-> 9]],
     [p \in DistinctPairs |->
        [raised |-> TRUE, is_duplicate |-> FALSE, similarity_score |-> 0]]}

\* the dict run_analysis reads from an item of `deduplicated`
InsightData(item) ==
    [title |-> item.text, category |-> item.category,
     confidence_score |-> item.confidence]

\* deduplicator.deduplicate(raw_insights)
deduplicate(judgment, raw, outcomes) ==
    LET merged == forward(judgment, raw, outcomes)
    IN [k \in 1..Len(merged) |-> InsightData(merged[k])]

\* name ILIKE '%pattern%': pattern occurs in name, letter case ignored
ILikeContains(name, pattern) ==
    \/ name = pattern
    \/ name = "t2" /\ pattern = "t1"

\* InitiativeRepository.find_similar: the rows the WHERE clause selects;
\* LIMIT 1 without ORDER BY returns any one of them
find_similar(rows, company_id, name, category) ==
    {i \in 1..Len(rows) :
        /\ rows[i].company_id = company_id
        /\ rows[i].category = category
        /\ ILikeContains(rows[i].name, name)}

\* the branch of step 4 that found an existing initiative
KeepExisting(initiative, now) == initiative
UpdateExisting(initiative, now) ==
    [initiative EXCEPT !.mention_count = @ + 1, !.last_mentioned_at = now]

\* the temporal flags run_analysis passes to insight_repo.create
DefaultFlags(is_new) ==
    [is_new |-> TRUE, is_reiterated |-> FALSE, is_modified |-> FALSE]
InsightFlags(is_new) ==
    [is_new |-> is_new, is_reiterated |-> ~is_new, is_modified |-> FALSE]

\* the merge calls of a run: at most one group of two per two candidates
\* the merge call raises, or proposes a canonical name
MergeCalls(max_chunks) == [1..(max_chunks \div 2) -> {"raise", "t3"}]

\* a run's view of its analysis row
NoAnalysis == [id |-> "none", company_id |-> "none", stored |-> 0]

\* AnalysisService.create_analysis has made one pending row per analysis
\* id: for the same company, or for two companies
PendingAnalyses ==
    {[a \in AnalysisIds |->
        [company_id |-> IF a = "a1" THEN "c1" ELSE c, status |-> "pending",
         insight_count |-> 0]] : c \in Companies}

AnalysisInit ==
    /\ db_initiatives = <<>>
    /\ db_insights = <<>>
    /\ db_analyses \in PendingAnalyses
    /\ analysis = NoAnalysis
    /\ raw_insights = <<>>
    /\ deduplicated = <<>>
    /\ utcnow = 0

AnalysisIdle ==
    /\ db_initiatives = <<>>
    /\ db_insights = <<>>
    /\ db_analyses = <<>>
    /\ analysis = NoAnalysis
    /\ raw_insights = <<>>
    /\ deduplicated = <<>>
    /\ utcnow = 0

\* no run_analysis call is in progress
NoRunInProgress ==
    IF analysis.id = "none" THEN TRUE
    ELSE db_analyses[analysis.id].status # "processing"

\* run_analysis up to the end of step 3
StartAnalysis(analysis_id, outcomes, judgment, merges) ==
    /\ NoRunInProgress
    /\ db_analyses[analysis_id].status = "pending"
    /\ db_analyses' = [db_analyses EXCEPT ![analysis_id].status = "processing"]
    /\ analysis' = [id |-> analysis_id,
                    company_id |-> db_analyses[analysis_id].company_id,
                    stored |-> 0]
    /\ raw_insights' = ExtractAll(outcomes)
    /\ deduplicated' = deduplicate(judgment, raw_insights', merges)
    /\ UNCHANGED <<db_initiatives, db_insights, utcnow>>

\* run_analysis when the retriever or the deduplicator raises: the handler
\* of the outer try marks the analysis failed
FailAnalysis(analysis_id) ==
    /\ NoRunInProgress
    /\ db_analyses[analysis_id].status = "pending"
    /\ db_analyses' = [db_analyses EXCEPT ![analysis_id].status = "failed"]
    /\ analysis' = [id |-> analysis_id,
                    company_id |-> db_analyses[analysis_id].company_id,
                    stored |-> 0]
    /\ raw_insights' = <<>>
    /\ deduplicated' = <<>>
    /\ UNCHANGED <<db_initiatives, db_insights, utcnow>>

\* one iteration of the loop of step 4
StoreInsight ==
    /\ analysis.id # "none"
    /\ db_analyses[analysis.id].status = "processing"
    /\ analysis.stored < Len(deduplicated)
    /\ LET insight_data == deduplicated[analysis.stored + 1]
           found == find_similar(db_initiatives, analysis.company_id,
                                 insight_data.title, insight_data.category)
           Insight(initiative_id, is_new) ==
               [company_id |-> analysis.company_id, analysis_id |-> analysis.id,
                initiative_id |-> initiative_id, title |-> insight_data.title]
                   @@ InsightFlags(is_new)
       IN /\ utcnow' = utcnow + 1
          /\ IF found # {}
             THEN \E i \in found :
                    /\ db_initiatives' =
                         [db_initiatives EXCEPT
                            ![i] = UpdateExisting(db_initiatives[i], utcnow')]
                    /\ db_insights' = Append(db_insights, Insight(i, FALSE))
             ELSE /\ db_initiatives' =
                       Append(db_initiatives,
                              [company_id |-> analysis.company_id,
                               name |-> insight_data.title,
                               category |-> insight_data.category,
                               mention_count |-> mention_count_default,
                               first_mentioned_at |-> utcnow',
                               last_mentioned_at |-> utcnow'])
                  /\ db_insights' =
                       Append(db_insights, Insight(Len(db_initiatives) + 1, TRUE))
    /\ analysis' = [analysis EXCEPT !.stored = @ + 1]
    /\ UNCHANGED <<db_analyses, raw_insights, deduplicated>>

\* the end of run_analysis
CompleteAnalysis ==
    /\ analysis.id # "none"
    /\ db_analyses[analysis.id].status = "processing"
    /\ analysis.stored = Len(deduplicated)
    /\ db_analyses' = [db_analyses EXCEPT
                         ![analysis.id].status = "completed",
                         ![analysis.id].insight_count = Len(deduplicated)]
    /\ UNCHANGED <<db_initiatives, db_insights, analysis, raw_insights,
                   deduplicated, utcnow>>

\* AnalysisService.clear_insights: InsightRepository.delete_by_company
ClearInsights(company_id) ==
    /\ NoRunInProgress
    /\ \E i \in 1..Len(db_insights) : db_insights[i].company_id = company_id
    /\ db_insights' =
         SelectSeq(db_insights, LAMBDA row : row.company_id # company_id)
    /\ UNCHANGED <<db_initiatives, db_analyses, analysis, raw_insights,
                   deduplicated, utcnow>>

AnalysisNext ==
    \/ \E analysis_id \in AnalysisIds, outcomes \in ExtractionRuns(MaxChunks),
          judgment \in AnalysisJudgments, merges \in MergeCalls(MaxChunks) :
         StartAnalysis(analysis_id, outcomes, judgment, merges)
           /\ UNCHANGED analysisRest
    \/ \E analysis_id \in AnalysisIds :
         FailAnalysis(analysis_id) /\ UNCHANGED analysisRest
    \/ StoreInsight /\ UNCHANGED analysisRest
    \/ CompleteAnalysis /\ UNCHANGED analysisRest
    \/ \E company_id \in Companies :
         ClearInsights(company_id) /\ UNCHANGED analysisRest

(***************************************************************************)
(* DOCUMENT DELETION                                                       *)
(*                                                                         *)
(* DocumentService.delete_document and IndexManager.delete_document, with  *)
(* the indexing and retrieval operations around them.  A call to the store *)
(* that fails may have had none, part or all of its effect.                *)
(***************************************************************************)
\* what the store does on a delete_by_metadata call
StoreOutcomes == {"ok", "lookup_fails", "delete_fails"}

\* the entries of a collection that carry the document_id
EntriesOf(cols, name, doc) ==
    IF name \notin DOMAIN cols THEN {}
    ELSE {n \in cols[name] : n.metadata.document_id = doc}

\* VectorStoreManager.delete_by_metadata: the collections afterwards and the
\* number it returns; `removed` is what a failing delete removed all the same
delete_by_metadata(cols, name, doc, outcome, removed) ==
    LET ids_to_delete == EntriesOf(cols, name, doc)
    IN CASE outcome = "ok" ->
              [cols |-> [cols EXCEPT ![name] = @ \ ids_to_delete],
               returned |-> Cardinality(ids_to_delete)]
         [] outcome = "lookup_fails" -> [cols |-> cols, returned |-> 0]
         [] OTHER ->
              [cols |-> [cols EXCEPT ![name] = @ \ (removed \cap ids_to_delete)],
               returned |-> 0]

\* what a call may have removed although it failed
PartlyRemoved(cols, name, doc, outcome) ==
    IF outcome = "delete_fails" THEN SUBSET EntriesOf(cols, name, doc) ELSE {{}}

DeleteInit ==
    /\ document_rows = DocumentIds
    /\ delete_call = [document_id |-> "none", company_id |-> "none",
                      returned |-> FALSE]

DeleteIdle == DeleteInit

\* document.company_id of the row of a document
CompanyOf(doc) == IF doc = "d1" THEN "c1" ELSE "c2"

\* DocumentService.process_document up to index_chunks, for a document that
\* has a row
ProcessDocument(doc) ==
    /\ doc \in document_rows
    /\ IndexChunks(CompanyOf(doc), doc)
    /\ UNCHANGED <<document_rows, delete_call>>

\* DocumentService.delete_document: storage.delete and repository.delete
DeleteDocument(doc) ==
    /\ doc \in document_rows
    /\ document_rows' = document_rows \ {doc}
    /\ UNCHANGED <<indexVars, delete_call>>

\* IndexManager.delete_document: False when get_or_create_index raised, True
\* otherwise, whatever number delete_by_metadata returned
IndexDeleteDocument(doc, company_id, index_raises, outcome, removed) ==
    IF index_raises
    THEN /\ delete_call' = [document_id |-> doc, company_id |-> company_id,
                            returned |-> FALSE]
         /\ UNCHANGED <<indexVars, document_rows>>
    ELSE LET name == collection_name(company_id)
             cols == get_or_create_collection(collections, name)
             done == delete_by_metadata(cols, name, doc, outcome, removed)
         IN /\ collections' = done.cols
            /\ _indices' = _indices \cup {company_id}
            /\ delete_call' = [document_id |-> doc, company_id |-> company_id,
                               returned |-> TRUE]
            /\ UNCHANGED <<results, retrieval_call, document_rows>>

\* HybridRetriever.retrieve_for_document, without a reranker
RetrieveForDocument(query, company_id, doc) ==
    /\ Retrieve(query, company_id, MaxTopK, {doc}, 0, FALSE, FALSE)
    /\ UNCHANGED <<document_rows, delete_call>>

\* HybridRetriever.get_context_window around the first chunk of a document
ContextOfDocument(company_id, doc) ==
    /\ GetContextWindow(doc, company_id, 1, MaxWindow)
    /\ UNCHANGED <<document_rows, delete_call>>

DeleteNext ==
    \/ \E d \in DocumentIds : ProcessDocument(d) /\ UNCHANGED deleteRest
    \/ \E d \in DocumentIds : DeleteDocument(d) /\ UNCHANGED deleteRest
    \/ \E c \in Companies, d \in DocumentIds, index_raises \in BOOLEAN,
          outcome \in StoreOutcomes :
         \E removed \in PartlyRemoved(collections, collection_name(c), d, outcome) :
            IndexDeleteDocument(d, c, index_raises, outcome, removed)
              /\ UNCHANGED deleteRest
    \/ \E c \in Companies, d \in DocumentIds :
         RetrieveForDocument("q1", c, d) /\ UNCHANGED deleteRest
    \/ \E c \in Companies, d \in DocumentIds :
         ContextOfDocument(c, d) /\ UNCHANGED deleteRest

(***************************************************************************)
(* INITIATIVE EXTRACTION                                                   *)
(*                                                                         *)
(* InitiativeExtractor.forward on one chunk.  A text is a sequence of      *)
(* characters.  A value the reasoning model put under a key is a record    *)
(* with its Python type in `kind`: a missing key, None, a number or a      *)
(* string.  Confidences are in units of 0.1.                               *)
(***************************************************************************)
MaxItems == 3

ContextText == <<"a", "b">>

\* the values the model may put under "confidence": nothing, 0.5, a number
\* below 0 or above 1, a word
ConfidenceValues ==
    {[kind |-> "missing", number |-> 0], [kind |-> "number", number |-> 5],
     [kind |-> "number", number |-> -5], [kind |-> "number", number |-> 15],
     [kind |-> "str", number |-> 0]}
\* under "evidence_quote": nothing, a quote that is in the context, one
\* that is not
QuoteValues ==
    {[kind |-> "missing", text |-> <<>>], [kind |-> "str", text |-> <<"a">>],
     [kind |-> "str", text |-> <<"b", "a">>]}
\* under "category": an alias of a category, or None
CategoryValues == {"strategic", "None"}

\* an item of result.initiatives: something that is no dict, or a dict: a
\* well-formed one, or one that differs from it under one key
NotADict ==
    [is_dict |-> FALSE, category |-> "None",
     confidence |-> [kind |-> "missing", number |-> 0],
     evidence_quote |-> [kind |-> "missing", text |-> <<>>]]
WellFormed ==
    [is_dict |-> TRUE, category |-> "strategic",
     confidence |-> [kind |-> "number", number |-> 5],
     evidence_quote |-> [kind |-> "str", text |-> <<"a">>]]
ModelItems ==
    {NotADict}
        \cup {[WellFormed EXCEPT !.category = c] : c \in CategoryValues}
        \cup {[WellFormed EXCEPT !.confidence = c] : c \in ConfidenceValues}
        \cup {[WellFormed EXCEPT !.evidence_quote = q] : q \in QuoteValues}
ModelOutputs(max_items) == SeqsOf(ModelItems, 0, max_items)

\* InitiativeExtractor._normalize_category; None has no lower()
_normalize_category(category) ==
    CASE category = "None" -> [raised |-> TRUE, value |-> "None"]
      [] category \in {"strategy", "product", "market", "operational", "financial"} ->
           [raised |-> FALSE, value |-> category]
      [] category \in {"strategic", "growth"} -> [raised |-> FALSE, value |-> "strategy"]
      [] category = "products" -> [raised |-> FALSE, value |-> "product"]
      [] category \in {"marketing", "expansion"} -> [raised |-> FALSE, value |-> "market"]
      [] category \in {"operations", "cost"} -> [raised |-> FALSE, value |-> "operational"]
      [] category \in {"finance", "revenue"} -> [raised |-> FALSE, value |-> "financial"]
      [] OTHER -> [raised |-> FALSE, value |-> "strategy"]

\* float(init_dict.get("confidence", 0.5)); a word or None raises
ConfidenceOf(confidence) ==
    CASE confidence.kind = "missing" -> [raised |-> FALSE, value |-> 5]
      [] confidence.kind = "number" -> [raised |-> FALSE, value |-> confidence.number]
      [] OTHER -> [raised |-> TRUE, value |-> 0]

\* init_dict.get("evidence_quote", ""), validated as a str
QuoteOf(evidence_quote) ==
    CASE evidence_quote.kind = "missing" -> [raised |-> FALSE, value |-> <<>>]
      [] evidence_quote.kind = "str" -> [raised |-> FALSE, value |-> evidence_quote.text]
      [] OTHER -> [raised |-> TRUE, value |-> <<>>]

ExtractedInitiative(category, confidence, evidence_quote) ==
    [category |-> category, confidence |-> confidence,
     evidence_quote |-> evidence_quote]

\* the body of the try in forward, for one item
ParseItem(init_dict) ==
    IF ~init_dict.is_dict THEN [raised |-> TRUE, initiative |-> <<>>]
    ELSE LET category == _normalize_category(init_dict.category)
             confidence == ConfidenceOf(init_dict.confidence)
             evidence_quote == QuoteOf(init_dict.evidence_quote)
         IN IF category.raised \/ confidence.raised \/ evidence_quote.raised
            THEN [raised |-> TRUE, initiative |-> <<>>]
            ELSE [raised |-> FALSE,
                  initiative |-> <<ExtractedInitiative(category.value, confidence.value,
                                                       evidence_quote.value)>>]

\* a loop that gives up at the first item that fails
RECURSIVE ParseUntilFailure(_)
ParseUntilFailure(items) ==
    IF items = <<>> THEN <<>>
    ELSE IF ParseItem(Head(items)).raised THEN <<>>
    ELSE ParseItem(Head(items)).initiative \o ParseUntilFailure(Tail(items))

\* the loop of forward: an item that raises is skipped
RECURSIVE ParseItems(_)
ParseItems(items) ==
    IF items = <<>> THEN <<>>
    ELSE (IF ParseItem(Head(items)).raised THEN <<>>
          ELSE ParseItem(Head(items)).initiative) \o ParseItems(Tail(items))

\* forward has not been called; `call` tells how the reasoning call ended
NotCalled ==
    [called |-> FALSE, call |-> "none", raised |-> FALSE, initiatives |-> <<>>]

ExtractInit ==
    /\ context = ContextText
    /\ model_items \in ModelOutputs(MaxItems)
    /\ extracted = NotCalled

ExtractIdle ==
    /\ context = <<>>
    /\ model_items = <<>>
    /\ extracted = NotCalled

\* InitiativeExtractor.forward, when the reasoning call returned model_items
ExtractorForward ==
    /\ ~extracted.called
    /\ extracted' = [called |-> TRUE, call |-> "returned", raised |-> FALSE,
                     initiatives |-> ParseItems(model_items)]
    /\ UNCHANGED <<context, model_items>>

\* InitiativeExtractor.forward, when the reasoning call raised
ExtractorRaises ==
    /\ ~extracted.called
    /\ extracted' = [called |-> TRUE, call |-> "raised", raised |-> TRUE,
                     initiatives |-> <<>>]
    /\ UNCHANGED <<context, model_items>>

ExtractNext ==
    \/ ExtractorForward /\ UNCHANGED extractRest
    \/ ExtractorRaises /\ UNCHANGED extractRest

(***************************************************************************)
(* THE run_analysis JOB HANDLER                                            *)
(*                                                                         *)
(* run_analysis_job, one step per document of its extraction loop and one  *)
(* for what follows the loop.  A document has chunks and the extraction    *)
(* returns candidates or raises, or it has no chunk and is skipped.        *)
(***************************************************************************)
MaxDocuments == 3

\* per document: extraction raises, returns a candidate, or is not called
DocumentOutcomes ==
    ChunkOutcomes \cup {[raised |-> FALSE, extracted |-> <<>>]}
DocumentRuns(max_documents) == SeqsOf(DocumentOutcomes, 0, max_documents)

AnalysisJobInit ==
    /\ job_documents \in DocumentRuns(MaxDocuments)
    /\ job_position = 0
    /\ all_initiatives = <<>>
    /\ job_analysis = [status |-> "pending", initiative_count |-> 0]
    /\ job_created = <<>>
    /\ job_exit = "none"

AnalysisJobIdle ==
    /\ job_documents = <<>>
    /\ job_position = 0
    /\ all_initiatives = <<>>
    /\ job_analysis = [status |-> "pending", initiative_count |-> 0]
    /\ job_created = <<>>
    /\ job_exit = "none"

\* the start of the handler: update_status(analysis_id, "processing")
JobBegin ==
    /\ job_analysis.status = "pending"
    /\ job_analysis' = [job_analysis EXCEPT !.status = "processing"]
    /\ UNCHANGED <<job_documents, job_position, all_initiatives, job_created,
                   job_exit>>

\* one iteration of the loop over documents; an exception of
\* extractor.extract reaches the handler of the outer try, which marks the
\* analysis failed and raises again
JobExtractDocument ==
    /\ job_analysis.status = "processing"
    /\ job_exit = "none"
    /\ job_position < Len(job_documents)
    /\ job_position' = job_position + 1
    /\ LET outcome == job_documents[job_position + 1]
       IN IF outcome.raised
          THEN /\ job_analysis' = [job_analysis EXCEPT !.status = "failed"]
               /\ job_exit' = "raised"
               /\ UNCHANGED all_initiatives
          ELSE /\ all_initiatives' = all_initiatives \o outcome.extracted
               /\ UNCHANGED <<job_analysis, job_exit>>
    /\ UNCHANGED <<job_documents, job_created>>

\* after the loop: deduplicate, create_initiative for each item,
\* update_status(analysis_id, "completed", initiative_count)
JobStoreInitiatives(judgment, merges) ==
    /\ job_analysis.status = "processing"
    /\ job_exit = "none"
    /\ job_position = Len(job_documents)
    /\ job_created' = deduplicate(judgment, all_initiatives, merges)
    /\ job_analysis' = [status |-> "completed",
                        initiative_count |-> Len(job_created')]
    /\ job_exit' = "returned"
    /\ UNCHANGED <<job_documents, job_position, all_initiatives>>

AnalysisJobNext ==
    \/ JobBegin /\ UNCHANGED analysisJobRest
    \/ JobExtractDocument /\ UNCHANGED analysisJobRest
    \/ \E judgment \in AnalysisJudgments, merges \in MergeCalls(MaxDocuments) :
         JobStoreInitiatives(judgment, merges) /\ UNCHANGED analysisJobRest

(***************************************************************************)
(* THE DOCUMENT PARSER                                                     *)
(*                                                                         *)
(* DocumentParser.parse and the supports methods of the five parsers.  A   *)
(* filename is the sequence of its parts between dots: "report.pdf" is     *)
(* <<"report", "pdf">>, ".pdf" is <<"", "pdf">>, "report." is              *)
(* <<"report", "">>.  An extension is written without its dot.             *)
(***************************************************************************)
MaxParts == 2

FilenameParts ==
    {"", "report", "Earnings", "recall", "pdf", "PDF", "docx", "doc", "pptx",
     "ppt", "html", "HTM", "txt", "md", "markdown", "rst", "text", "xyz"}
ParserFilenames(max_parts) == SeqsOf(FilenameParts, 1, max_parts)

\* str.lower on a part of a filename
Lower(part) ==
    CASE part = "Earnings" -> "earnings"
      [] part = "PDF" -> "pdf"
      [] part = "HTM" -> "htm"
      [] OTHER -> part

\* Path(filename).suffix: the text from the last dot on, empty when that dot
\* starts the name or ends it
Suffix(filename) ==
    LET n == Len(filename)
    IN IF /\ n >= 2
          /\ filename[n] # ""
          /\ (n >= 3 \/ filename[1] # "")
       THEN filename[n]
       ELSE ""

\* TranscriptParser.supports: one of "transcript", "earnings", "call",
\* "conference" occurs in the lower-cased filename
is_transcript(filename) ==
    \E i \in 1..Len(filename) : Lower(filename[i]) \in {"earnings", "recall"}

TranscriptExtensions == {"html", "htm"}
TextExtensions == {"txt", "md", "markdown", "rst", "text"}

\* parser.supports(filename) for each of the registered parsers
supports(parser, filename) ==
    LET suffix == Lower(Suffix(filename))
    IN CASE parser = "PDFParser" -> suffix = "pdf"
         [] parser = "DocxParser" -> suffix \in {"docx", "doc"}
         [] parser = "PptxParser" -> suffix \in {"pptx", "ppt"}
         [] parser = "TranscriptParser" ->
                suffix \in TranscriptExtensions /\ is_transcript(filename)
         [] parser = "TextParser" -> suffix \in TextExtensions

\* DocumentParser._register_parsers
_parsers ==
    <<"PDFParser", "DocxParser", "PptxParser", "TranscriptParser",
      "TextParser">>

\* the loop of DocumentParser.parse: the parser it hands the content to
FallbackParser(parsers, filename) == parsers[Len(parsers)]
RECURSIVE FirstSupporting(_, _)
FirstSupporting(parsers, filename) ==
    IF parsers = <<>> THEN "none"
    ELSE IF supports(Head(parsers), filename) THEN Head(parsers)
    ELSE FirstSupporting(Tail(parsers), filename)

\* what a parser does with the content: it returns a ParsedDocument or
\* raises an error of its own
ParserOutcomes == {"parsed", "parser_error"}

\* DocumentParser.parse
parse(filename, outcome) ==
    LET parser == FirstSupporting(_parsers, filename)
    IN IF parser = "none"
       THEN [parser |-> "none", raised |-> "Unsupported file type",
             document |-> FALSE]
       ELSE IF outcome = "parser_error"
       THEN [parser |-> parser, raised |-> "parser_error", document |-> FALSE]
       ELSE [parser |-> parser, raised |-> "none", document |-> TRUE]

NotParsed == [parser |-> "none", raised |-> "none", document |-> FALSE]

\* a call of DocumentParser.parse is about to be made with some filename
ParseInit ==
    /\ parse_call \in [called : {FALSE}, filename : ParserFilenames(MaxParts)]
    /\ parse_result = NotParsed

ParseIdle ==
    /\ parse_call = [called |-> FALSE, filename |-> <<>>]
    /\ parse_result = NotParsed

Parse(outcome) ==
    /\ ~parse_call.called
    /\ parse_call' = [parse_call EXCEPT !.called = TRUE]
    /\ parse_result' = parse(parse_call.filename, outcome)

ParseNext ==
    \E outcome \in ParserOutcomes : Parse(outcome) /\ UNCHANGED parseRest

(***************************************************************************)
(* THE TIMELINE SERVICE                                                    *)
(*                                                                         *)
(* TimelineService.get_timeline with _get_period_key and                   *)
(* _get_period_bounds.  A datetime is its year, month and day; a str is    *)
(* the sequence of its characters.                                         *)
(***************************************************************************)
MaxInsights == 2

Digits == <<"0", "1", "2", "3", "4", "5", "6", "7", "8", "9">>
DigitVal(c) == (CHOOSE d \in 1..10 : Digits[d] = c) - 1
\* ord(c) for the characters of a period key
CharCode(c) ==
    CASE c = " " -> 32
      [] c = "-" -> 45
      [] c = "Q" -> 81
      [] OTHER -> 48 + DigitVal(c)

\* str(n) and int(s) for a natural number
RECURSIVE str(_)
str(n) ==
    IF n < 10 THEN <<Digits[n + 1]>>
    ELSE str(n \div 10) \o <<Digits[(n % 10) + 1]>>
RECURSIVE int(_)
int(s) ==
    IF Len(s) = 1 THEN DigitVal(s[1])
    ELSE 10 * int(SubSeq(s, 1, Len(s) - 1)) + DigitVal(s[Len(s)])

\* "%m" of strftime: two digits
TwoDigits(n) == IF n < 10 THEN <<"0">> \o str(n) ELSE str(n)

\* s.split(sep): the parts between the separators
RECURSIVE SplitAt(_, _, _, _)
SplitAt(s, sep, current, parts) ==
    IF s = <<>> THEN Append(parts, current)
    ELSE IF Head(s) = sep
    THEN SplitAt(Tail(s), sep, <<>>, Append(parts, current))
    ELSE SplitAt(Tail(s), sep, Append(current, Head(s)), parts)
split(s, sep) == SplitAt(s, sep, <<>>, <<>>)
\* s.split(): the parts between blanks, empty parts left out
split_blank(s) == SelectSeq(split(s, " "), LAMBDA part : part # <<>>)

\* s < t for two str
RECURSIVE StrLess(_, _)
StrLess(s, t) ==
    IF t = <<>> THEN FALSE
    ELSE IF s = <<>> THEN TRUE
    ELSE IF Head(s) # Head(t) THEN CharCode(Head(s)) < CharCode(Head(t))
    ELSE StrLess(Tail(s), Tail(t))

\* sorted(keys) for a set of str
RECURSIVE sorted(_)
sorted(keys) ==
    IF keys = {} THEN <<>>
    ELSE LET least == CHOOSE k \in keys :
                         \A other \in keys \ {k} : StrLess(k, other)
         IN <<least>> \o sorted(keys \ {least})

datetime(year, month, day) == [year |-> year, month |-> month, day |-> day]
\* first_mentioned_at of an insight that has none
NoDate == datetime(0, 0, 0)

IsLeap(year) == year % 4 = 0 /\ (year % 100 # 0 \/ year % 400 = 0)
DaysInMonth(year, month) ==
    IF month = 2 THEN (IF IsLeap(year) THEN 29 ELSE 28)
    ELSE IF month \in {4, 6, 9, 11} THEN 30 ELSE 31

\* dt - timedelta(days=1)
DayBefore(dt) ==
    IF dt.day > 1 THEN datetime(dt.year, dt.month, dt.day - 1)
    ELSE IF dt.month > 1
    THEN datetime(dt.year, dt.month - 1, DaysInMonth(dt.year, dt.month - 1))
    ELSE datetime(dt.year - 1, 12, 31)

\* the dates insights are first mentioned at: two years, one of them a leap
\* year, with the first and the last days of quarters among them
InsightDates ==
    {datetime(2024, 1, 1), datetime(2024, 2, 29), datetime(2024, 4, 1),
     datetime(2024, 5, 15), datetime(2024, 6, 30), datetime(2024, 12, 31),
     datetime(2025, 1, 15), datetime(2025, 3, 31), datetime(2025, 10, 1),
     datetime(2025, 11, 30)}
InsightLists(max_insights) ==
    SeqsOf(InsightDates \cup {NoDate}, 0, max_insights)
GroupBys == {"quarter", "year", "month"}

\* utils.helpers.extract_quarter_year and format_quarter
extract_month_year(date) == <<date.month, date.year>>
extract_quarter_year(date) == <<((date.month - 1) \div 3) + 1, date.year>>
format_quarter(quarter, year) == <<"Q">> \o str(quarter) \o <<" ">> \o str(year)

_get_period_key(dt, g) ==
    IF g = "quarter"
    THEN LET qy == extract_quarter_year(dt) IN format_quarter(qy[1], qy[2])
    ELSE IF g = "year" THEN str(dt.year)
    ELSE IF g = "month" THEN str(dt.year) \o <<"-">> \o TwoDigits(dt.month)
    ELSE LET qy == extract_quarter_year(dt) IN format_quarter(qy[1], qy[2])

\* the pair (start, end) _get_period_bounds returns
_get_period_bounds(period_key, g) ==
    IF g = "quarter"
    THEN LET parts == split_blank(period_key)
             q == int(<<parts[1][2]>>)
             y == int(parts[2])
             start_month == (q - 1) * 3 + 1
         IN <<datetime(y, start_month, 1),
              IF q = 4 THEN DayBefore(datetime(y + 1, 1, 1))
              ELSE DayBefore(datetime(y, start_month + 3, 1))>>
    ELSE IF g = "year"
    THEN LET y == int(period_key)
         IN <<datetime(y, 1, 1), datetime(y, 12, 31)>>
    ELSE LET ym == split(period_key, "-")
             y == int(ym[1])
             m == int(ym[2])
         IN <<datetime(y, m, 1),
              IF m = 12 THEN DayBefore(datetime(y + 1, 1, 1))
              ELSE DayBefore(datetime(y, m + 1, 1))>>

\* get_timeline: grouped[period_key], in the order of the insights
Grouped(rows, g, period_key) ==
    SelectSeq(rows, LAMBDA dt : dt # NoDate /\ _get_period_key(dt, g) = period_key)

\* get_timeline: the items, one per key of grouped, keys sorted as str
get_timeline(rows, g) ==
    LET keys == {_get_period_key(rows[i], g) :
                    i \in {j \in 1..Len(rows) : rows[j] # NoDate}}
        order == sorted(keys)
    IN [k \in 1..Len(order) |->
          [period |-> order[k],
           period_start |-> _get_period_bounds(order[k], g)[1],
           period_end |-> _get_period_bounds(order[k], g)[2],
           insights |-> Grouped(rows, g, order[k])]]

NoTimeline == [called |-> FALSE, items |-> <<>>]

TimelineInit ==
    /\ insights \in InsightLists(MaxInsights)
    /\ group_by \in GroupBys
    /\ timeline = NoTimeline

TimelineIdle ==
    /\ insights = <<>>
    /\ group_by = "quarter"
    /\ timeline = NoTimeline

GetTimeline ==
    /\ ~timeline.called
    /\ timeline' = [called |-> TRUE, items |-> get_timeline(insights, group_by)]
    /\ UNCHANGED <<insights, group_by>>

TimelineNext ==
    GetTimeline /\ UNCHANGED timelineRest

(***************************************************************************)
(* CONCURRENT ANALYSIS RUNS                                                *)
(*                                                                         *)
(* Step 4 of run_analysis for two calls that run at once.  A coroutine     *)
(* gives way at each await: after find_similar, after                      *)
(* initiative_repo.create and after insight_repo.create.  Timestamps are   *)
(* not followed here.                                                      *)
(***************************************************************************)
MaxRunItems == 2

\* the items of `deduplicated` a run stores
RunItems ==
    {[title |-> "t1", category |-> "product", confidence_score |-> 5],
     [title |-> "t3", category |-> "product", confidence_score |-> 5]}
RunLists(max_run_items) == SeqsOf(RunItems, 1, max_run_items)

\* a variant in which a run waits while another is between its lookup and
\* the end of its iteration
WaitsForOthers(rs, a) ==
    /\ rs[a].pc = "find_similar"
    /\ \A b \in DOMAIN rs \ {a} : rs[b].pc \in {"find_similar", "done"}
\* a run may call find_similar whenever it is at the head of the loop
AtLoopHead(rs, a) == rs[a].pc = "find_similar"

ConcurrentInit ==
    /\ runs \in {[a \in AnalysisIds |->
                    [company_id |-> IF a = "a1" THEN "c1" ELSE c,
                     deduplicated |-> IF a = "a1" THEN l1 ELSE l2,
                     stored |-> 0, pc |-> "find_similar", initiative |-> 0,
                     is_new |-> FALSE]] :
                 c \in Companies, l1 \in RunLists(MaxRunItems),
                 l2 \in RunLists(MaxRunItems)}
    /\ initiative_rows = <<>>
    /\ insight_rows = <<>>

ConcurrentIdle ==
    /\ runs = <<>>
    /\ initiative_rows = <<>>
    /\ insight_rows = <<>>

\* initiative = await self.initiative_repo.find_similar(...)
FindSimilar(a) ==
    /\ AtLoopHead(runs, a)
    /\ LET insight_data == runs[a].deduplicated[runs[a].stored + 1]
           found == find_similar(initiative_rows, runs[a].company_id,
                                 insight_data.title, insight_data.category)
       IN IF found = {}
          THEN runs' = [runs EXCEPT ![a].pc = "create", ![a].initiative = 0]
          ELSE \E i \in found :
                 runs' = [runs EXCEPT ![a].pc = "insight",
                                      ![a].initiative = i,
                                      ![a].is_new = FALSE]
    /\ UNCHANGED <<initiative_rows, insight_rows>>

\* initiative = await self.initiative_repo.create(...)
CreateInitiative(a) ==
    /\ runs[a].pc = "create"
    /\ LET insight_data == runs[a].deduplicated[runs[a].stored + 1]
       IN initiative_rows' =
            Append(initiative_rows,
                   [company_id |-> runs[a].company_id,
                    name |-> insight_data.title,
                    category |-> insight_data.category,
                    mention_count |-> mention_count_default,
                    first_mentioned_at |-> 0, last_mentioned_at |-> 0])
    /\ runs' = [runs EXCEPT ![a].pc = "insight",
                            ![a].initiative = Len(initiative_rows) + 1,
                            ![a].is_new = TRUE]
    /\ UNCHANGED insight_rows

\* the update of a found initiative and await self.insight_repo.create(...)
CreateInsight(a) ==
    /\ runs[a].pc = "insight"
    /\ LET insight_data == runs[a].deduplicated[runs[a].stored + 1]
           i == runs[a].initiative
       IN /\ initiative_rows' =
               IF runs[a].is_new THEN initiative_rows
               ELSE [initiative_rows EXCEPT
                       ![i] = UpdateExisting(initiative_rows[i], 0)]
          /\ insight_rows' =
               Append(insight_rows,
                      [company_id |-> runs[a].company_id, analysis_id |-> a,
                       initiative_id |-> i, title |-> insight_data.title]
                          @@ InsightFlags(runs[a].is_new))
    /\ runs' = [runs EXCEPT
                  ![a].stored = @ + 1,
                  ![a].pc = IF runs[a].stored + 1 = Len(runs[a].deduplicated)
                            THEN "done" ELSE "find_similar"]

ConcurrentNext ==
    \/ \E a \in AnalysisIds : FindSimilar(a) /\ UNCHANGED concurrentRest
    \/ \E a \in AnalysisIds : CreateInitiative(a) /\ UNCHANGED concurrentRest
    \/ \E a \in AnalysisIds : CreateInsight(a) /\ UNCHANGED concurrentRest

(***************************************************************************)
(* CONCURRENT UPLOADS                                                      *)
(*                                                                         *)
(* upload_document for calls that run at once.  A call gives way at each   *)
(* await: after get_by_hash, after storage.save and after                  *)
(* repository.create.  The documents table has no unique constraint on     *)
(* content_hash.                                                           *)
(***************************************************************************)
MaxUploads == 2

UploadFilenames == {"report.pdf", "data.xyz"}
UploadCalls(max_uploads) ==
    [1..max_uploads ->
        [company_id : Companies, filename : UploadFilenames,
         content : Contents, pc : {"get_by_hash"}]]

ConcurrentUploadInit ==
    /\ uploads \in UploadCalls(MaxUploads)
    /\ document_table = {}

ConcurrentUploadIdle ==
    /\ uploads = <<>>
    /\ document_table = {}

\* upload_document up to storage.save: the duplicate check and the file type
UploadCheck(u) ==
    /\ uploads[u].pc = "get_by_hash"
    /\ LET existing == get_by_hash(document_table,
                                   compute_file_hash(uploads[u].content))
       IN uploads' =
            [uploads EXCEPT ![u].pc =
               IF existing.raised # "no" THEN existing.raised
               ELSE IF \E row \in existing.rows :
                          row.company_id = uploads[u].company_id
               THEN "ValidationError"
               ELSE IF get_document_type(uploads[u].filename) = "None"
               THEN "ValidationError"
               ELSE "save"]
    /\ UNCHANGED document_table

\* storage_path = await self.storage.save(...)
UploadSave(u) ==
    /\ uploads[u].pc = "save"
    /\ uploads' = [uploads EXCEPT ![u].pc = "create"]
    /\ UNCHANGED document_table

\* document = await self.repository.create(...)
UploadCreate(u) ==
    /\ uploads[u].pc = "create"
    /\ document_table' = document_table \cup
         {[id |-> u, company_id |-> uploads[u].company_id,
           filename |-> uploads[u].filename,
           file_type |-> get_document_type(uploads[u].filename),
           content_hash |-> compute_file_hash(uploads[u].content),
           status |-> "pending"]}
    /\ uploads' = [uploads EXCEPT ![u].pc = "created"]

ConcurrentUploadNext ==
    \/ \E u \in DOMAIN uploads :
         UploadCheck(u) /\ UNCHANGED concurrentUploadRest
    \/ \E u \in DOMAIN uploads :
         UploadSave(u) /\ UNCHANGED concurrentUploadRest
    \/ \E u \in DOMAIN uploads :
         UploadCreate(u) /\ UNCHANGED concurrentUploadRest

(***************************************************************************)
(* DOCUMENT PROCESSING STATUS                                              *)
(*                                                                         *)
(* DocumentService.process_document with DocumentRepository.update_status  *)
(* and BaseRepository.update.  A column value or keyword argument is None  *)
(* or Some(v); datetime.utcnow() is the number of the call.                *)
(***************************************************************************)
MaxProcessCalls == 3

None == [none |-> TRUE]
Some(v) == [none |-> FALSE, v |-> v]

\* what parsing, chunking and indexing do in a call: they return some
\* chunks, or one of them raises
ProcessingOutcomes ==
    {[raised |-> FALSE, message |-> "", chunks |-> 2],
     [raised |-> FALSE, message |-> "", chunks |-> 0],
     [raised |-> TRUE, message |-> "parse failed", chunks |-> 0],
     [raised |-> TRUE, message |-> "index failed", chunks |-> 0]}

\* BaseRepository.update: setattr for each value that is not None
update(instance, kwargs) ==
    [key \in DOMAIN instance |->
        IF key \in DOMAIN kwargs /\ ~kwargs[key].none
        THEN kwargs[key] ELSE instance[key]]

\* DocumentRepository.update_status
update_status(instance, status, error_message, kwargs, now) ==
    LET update_data ==
          [status |-> Some(status), error_message |-> error_message] @@ kwargs
        with_processed_at ==
          IF status = "processing" THEN ("processed_at" :> None) @@ update_data
          ELSE IF status = "completed"
          THEN ("processed_at" :> Some(now)) @@ update_data
          ELSE update_data
    IN update(instance, with_processed_at)

\* a document row after upload_document
PendingDocument ==
    [status |-> Some("pending"), error_message |-> None,
     processed_at |-> None, chunk_count |-> Some(0)]

ProcessingInit ==
    /\ doc_status = [d \in DocumentIds |-> PendingDocument]
    /\ processing = "none"
    /\ process_calls = 0

ProcessingIdle == ProcessingInit

\* process_document up to the try: get_by_id, update_status("processing")
BeginProcessing(d) ==
    /\ processing = "none"
    /\ process_calls < MaxProcessCalls
    /\ process_calls' = process_calls + 1
    /\ processing' = d
    /\ doc_status' =
         [doc_status EXCEPT
            ![d] = update_status(@, "processing", None, <<>>, process_calls')]

\* the rest of process_document: the try and its handler
FinishProcessing(outcome) ==
    /\ processing # "none"
    /\ doc_status' =
         [doc_status EXCEPT
            ![processing] =
               IF outcome.raised
               THEN update_status(@, "failed", Some(outcome.message), <<>>,
                                  process_calls)
               ELSE update_status(@, "completed", None,
                                  [chunk_count |-> Some(outcome.chunks)],
                                  process_calls)]
    /\ processing' = "none"
    /\ UNCHANGED process_calls

ProcessingNext ==
    \/ \E d \in DocumentIds : BeginProcessing(d) /\ UNCHANGED processingRest
    \/ \E outcome \in ProcessingOutcomes :
         FinishProcessing(outcome) /\ UNCHANGED processingRest

(***************************************************************************)
(* SPECIFICATIONS: one per component, the others at rest                   *)
(***************************************************************************)
ChunkSpecInit ==
    ChunkInit /\ IndexIdle /\ UploadIdle /\ DedupIdle /\ MergeIdle
        /\ JobsIdle /\ AnalysisIdle /\ DeleteIdle /\ ExtractIdle
        /\ AnalysisJobIdle /\ ParseIdle /\ TimelineIdle /\ ConcurrentIdle
        /\ ConcurrentUploadIdle /\ ProcessingIdle
SpecChunk == ChunkSpecInit /\ [][ChunkNext]_vars

IndexSpecInit ==
    ChunkIdle /\ IndexInit /\ UploadIdle /\ DedupIdle /\ MergeIdle
        /\ JobsIdle /\ AnalysisIdle /\ DeleteIdle /\ ExtractIdle
        /\ AnalysisJobIdle /\ ParseIdle /\ TimelineIdle /\ ConcurrentIdle
        /\ ConcurrentUploadIdle /\ ProcessingIdle
SpecIndex == IndexSpecInit /\ [][IndexNext]_vars

UploadSpecInit ==
    ChunkIdle /\ IndexIdle /\ UploadInit /\ DedupIdle /\ MergeIdle
        /\ JobsIdle /\ AnalysisIdle /\ DeleteIdle /\ ExtractIdle
        /\ AnalysisJobIdle /\ ParseIdle /\ TimelineIdle /\ ConcurrentIdle
        /\ ConcurrentUploadIdle /\ ProcessingIdle
SpecUpload == UploadSpecInit /\ [][UploadNext]_vars

DedupSpecInit ==
    ChunkIdle /\ IndexIdle /\ UploadIdle /\ DedupInit /\ MergeIdle
        /\ JobsIdle /\ AnalysisIdle /\ DeleteIdle /\ ExtractIdle
        /\ AnalysisJobIdle /\ ParseIdle /\ TimelineIdle /\ ConcurrentIdle
        /\ ConcurrentUploadIdle /\ ProcessingIdle
SpecDedup == DedupSpecInit /\ [][DedupNext]_vars

MergeSpecInit ==
    ChunkIdle /\ IndexIdle /\ UploadIdle /\ DedupIdle /\ MergeInit
        /\ JobsIdle /\ AnalysisIdle /\ DeleteIdle /\ ExtractIdle
        /\ AnalysisJobIdle /\ ParseIdle /\ TimelineIdle /\ ConcurrentIdle
        /\ ConcurrentUploadIdle /\ ProcessingIdle
SpecMerge == MergeSpecInit /\ [][MergeNext]_vars

JobsSpecInit ==
    ChunkIdle /\ IndexIdle /\ UploadIdle /\ DedupIdle /\ MergeIdle
        /\ JobsInit /\ AnalysisIdle /\ DeleteIdle /\ ExtractIdle
        /\ AnalysisJobIdle /\ ParseIdle /\ TimelineIdle /\ ConcurrentIdle
        /\ ConcurrentUploadIdle /\ ProcessingIdle
SpecJobs == JobsSpecInit /\ [][JobsNext]_vars

AnalysisSpecInit ==
    ChunkIdle /\ IndexIdle /\ UploadIdle /\ DedupIdle /\ MergeIdle
        /\ JobsIdle /\ AnalysisInit /\ DeleteIdle /\ ExtractIdle
        /\ AnalysisJobIdle /\ ParseIdle /\ TimelineIdle /\ ConcurrentIdle
        /\ ConcurrentUploadIdle /\ ProcessingIdle
SpecAnalysis == AnalysisSpecInit /\ [][AnalysisNext]_vars

DeleteSpecInit ==
    ChunkIdle /\ IndexIdle /\ UploadIdle /\ DedupIdle /\ MergeIdle
        /\ JobsIdle /\ AnalysisIdle /\ DeleteInit /\ ExtractIdle
        /\ AnalysisJobIdle /\ ParseIdle /\ TimelineIdle /\ ConcurrentIdle
        /\ ConcurrentUploadIdle /\ ProcessingIdle
SpecDelete == DeleteSpecInit /\ [][DeleteNext]_vars

ExtractSpecInit ==
    ChunkIdle /\ IndexIdle /\ UploadIdle /\ DedupIdle /\ MergeIdle
        /\ JobsIdle /\ AnalysisIdle /\ DeleteIdle /\ ExtractInit
        /\ AnalysisJobIdle /\ ParseIdle /\ TimelineIdle /\ ConcurrentIdle
        /\ ConcurrentUploadIdle /\ ProcessingIdle
SpecExtract == ExtractSpecInit /\ [][ExtractNext]_vars

AnalysisJobSpecInit ==
    ChunkIdle /\ IndexIdle /\ UploadIdle /\ DedupIdle /\ MergeIdle
        /\ JobsIdle /\ AnalysisIdle /\ DeleteIdle /\ ExtractIdle
        /\ AnalysisJobInit /\ ParseIdle /\ TimelineIdle /\ ConcurrentIdle
        /\ ConcurrentUploadIdle /\ ProcessingIdle
SpecAnalysisJob == AnalysisJobSpecInit /\ [][AnalysisJobNext]_vars

ParseSpecInit ==
    ChunkIdle /\ IndexIdle /\ UploadIdle /\ DedupIdle /\ MergeIdle
        /\ JobsIdle /\ AnalysisIdle /\ DeleteIdle /\ ExtractIdle
        /\ AnalysisJobIdle /\ ParseInit /\ TimelineIdle /\ ConcurrentIdle
        /\ ConcurrentUploadIdle /\ ProcessingIdle
SpecParse == ParseSpecInit /\ [][ParseNext]_vars

TimelineSpecInit ==
    ChunkIdle /\ IndexIdle /\ UploadIdle /\ DedupIdle /\ MergeIdle
        /\ JobsIdle /\ AnalysisIdle /\ DeleteIdle /\ ExtractIdle
        /\ AnalysisJobIdle /\ ParseIdle /\ TimelineInit /\ ConcurrentIdle
        /\ ConcurrentUploadIdle /\ ProcessingIdle
SpecTimeline == TimelineSpecInit /\ [][TimelineNext]_vars

ConcurrentSpecInit ==
    ChunkIdle /\ IndexIdle /\ UploadIdle /\ DedupIdle /\ MergeIdle
        /\ JobsIdle /\ AnalysisIdle /\ DeleteIdle /\ ExtractIdle
        /\ AnalysisJobIdle /\ ParseIdle /\ TimelineIdle /\ ConcurrentInit
        /\ ConcurrentUploadIdle /\ ProcessingIdle
SpecConcurrent == ConcurrentSpecInit /\ [][ConcurrentNext]_vars

ConcurrentUploadSpecInit ==
    ChunkIdle /\ IndexIdle /\ UploadIdle /\ DedupIdle /\ MergeIdle
        /\ JobsIdle /\ AnalysisIdle /\ DeleteIdle /\ ExtractIdle
        /\ AnalysisJobIdle /\ ParseIdle /\ TimelineIdle /\ ConcurrentIdle
        /\ ConcurrentUploadInit /\ ProcessingIdle
SpecConcurrentUpload == ConcurrentUploadSpecInit /\ [][ConcurrentUploadNext]_vars

ProcessingSpecInit ==
    ChunkIdle /\ IndexIdle /\ UploadIdle /\ DedupIdle /\ MergeIdle
        /\ JobsIdle /\ AnalysisIdle /\ DeleteIdle /\ ExtractIdle
        /\ AnalysisJobIdle /\ ParseIdle /\ TimelineIdle /\ ConcurrentIdle
        /\ ConcurrentUploadIdle /\ ProcessingInit
SpecProcessing == ProcessingSpecInit /\ [][ProcessingNext]_vars

(***************************************************************************)
(* PROPERTIES                                                              *)
(***************************************************************************)

\* C1: the chunks a chunker returns for a document have pairwise distinct
\* ids, whichever chunker produced them and whichever parser produced the
\* document (the slide-deck parser included).
C1_ChunkIdsDistinct ==
    \A i, j \in 1..Len(chunks) : i # j => chunks[i].id # chunks[j].id

\* C2: every list of results a retrieval operation returns has its scores in
\* non-increasing order.
C2_ScoresNonIncreasing ==
    \A i \in 1..(Len(results) - 1) : results[i].score >= results[i + 1].score

C4_DuplicateRejected ==
    (/\ upload_last.outcome # "none"
     /\ \E d \in documents :
           /\ d.company_id = upload_last.company_id
           /\ d.content_hash = upload_last.content_hash
           /\ d.id # upload_last.document_id)
    => (/\ upload_last.outcome = "ValidationError"
        /\ upload_last.document_id = 0
        /\ ~upload_last.saved)

\* C5: forward applied to its own output returns that output unchanged.
C5_Idempotent ==
    dedup_pc = "second" => second_pass = first_pass

\* C6: deduplicate_batch terminates: its recursion never runs into the
\* recursion limit.
C6_BatchTerminates ==
    batch_pc # "RecursionError"

SetMax(S) == CHOOSE x \in S : \A y \in S : y <= x

\* C7: the item _merge_group produces has the maximum of the members'
\* confidences, whether the merge call returned or raised.
C7_ConfidenceIsMax ==
    merge_result # <<>> =>
        merge_result[1].item.confidence =
            SetMax({merge_group_in[i].confidence : i \in 1..Len(merge_group_in)})

\* C8: source_chunk_ids of the item _merge_group produces holds exactly the
\* members' source chunk ids, each once.
C8_SourcesExactlyOnce ==
    merge_result # <<>> =>
        LET ids == merge_result[1].item.source_chunk_ids
        IN /\ \A i, j \in 1..Len(ids) : i # j => ids[i] # ids[j]
           /\ {ids[i] : i \in 1..Len(ids)} =
                {merge_group_in[i].source_chunk_id : i \in 1..Len(merge_group_in)}
                    \ {"None"}

\* C9: a job leaves its handler only in a terminal status (completed when the
\* handler returned, failed with the exception's message when it raised), and
\* no job has completed_at set while its status is processing.
C9_HandlerExitIsTerminal ==
    \A o \in 1..Len(job_objs) :
        /\ job_objs[o].status = PROCESSING => ~job_objs[o].completed_at
        /\ job_objs[o].handler_exit # "none" => job_objs[o].status \in {COMPLETED, FAILED}
        /\ job_objs[o].handler_exit = "returned" => job_objs[o].status = COMPLETED
        /\ job_objs[o].handler_exit = "raised" =>
              /\ job_objs[o].status = FAILED
              /\ job_objs[o].error_message \in ExceptionMessages

\* C10: a handler is invoked at most once on a job, and a job that is
\* completed or failed is never handled again nor changes status.
C10_HandledOnce ==
    [][\A o \in 1..Len(job_objs) :
          /\ job_objs'[o].handled <= 1
          /\ job_objs[o].status \in {COMPLETED, FAILED} =>
                /\ job_objs'[o].status = job_objs[o].status
                /\ job_objs'[o].handled = job_objs[o].handled]_vars

\* C11: every insight has exactly one of is_new and is_reiterated; the
\* insight a step adds is is_new exactly when the step created its
\* initiative and is_reiterated exactly when it was linked to an initiative
\* that existed before; is_modified never holds together with is_new.
C11_TemporalFlags ==
    [][/\ \A k \in 1..Len(db_insights') :
            /\ db_insights'[k].is_new # db_insights'[k].is_reiterated
            /\ ~(db_insights'[k].is_modified /\ db_insights'[k].is_new)
       /\ Len(db_insights') = Len(db_insights) + 1 =>
            LET row == db_insights'[Len(db_insights')]
            IN /\ row.is_new <=>
                    /\ Len(db_initiatives') = Len(db_initiatives) + 1
                    /\ row.initiative_id = Len(db_initiatives')
               /\ row.is_reiterated <=>
                    row.initiative_id \in 1..Len(db_initiatives)]_vars

\* an initiative with the insight that created it and a later insight
C11_Witness ==
    \E j, k \in 1..Len(db_insights) :
        /\ j < k
        /\ db_insights[j].initiative_id = db_insights[k].initiative_id
        /\ db_insights[j].is_new
        /\ db_insights[k].is_reiterated

\* C12: a step of step 4 whose item matches no initiative of the company
\* adds exactly one initiative and changes no other; a step whose item
\* matches adds none, raises the mention_count of exactly one matching
\* initiative by exactly 1 and does not move its last_mentioned_at
\* backwards; no other step (start, failure or end of a run,
\* clear_insights) changes or deletes an initiative.
C12_InitiativeLifecycle ==
    [][LET old == db_initiatives
           new == db_initiatives'
       IN IF analysis'.id = analysis.id /\ analysis'.stored = analysis.stored + 1
          THEN LET insight_data == deduplicated[analysis.stored + 1]
                   found == find_similar(old, analysis.company_id,
                                         insight_data.title, insight_data.category)
               IN IF found = {}
                  THEN /\ Len(new) = Len(old) + 1
                       /\ SubSeq(new, 1, Len(old)) = old
                       /\ new[Len(new)].company_id = analysis.company_id
                       /\ new[Len(new)].name = insight_data.title
                  ELSE /\ Len(new) = Len(old)
                       /\ \E i \in found :
                            /\ new[i].mention_count = old[i].mention_count + 1
                            /\ new[i].last_mentioned_at >= old[i].last_mentioned_at
                            /\ \A j \in 1..Len(old) : j # i => new[j] = old[j]
          ELSE new = old]_vars

\* an initiative mentioned again after its creation, still there after its
\* company's insights were cleared
C12_Witness ==
    /\ db_insights = <<>>
    /\ \E i \in 1..Len(db_initiatives) :
         /\ db_initiatives[i].mention_count = 2
         /\ db_initiatives[i].last_mentioned_at > db_initiatives[i].first_mentioned_at

\* C13: when the first run of a company extracted two candidates and the
\* pairwise judgment made them one group (deduplicate returned one item for
\* the two), the completed run has persisted exactly one initiative, with
\* mention_count = 2.
C13_MergedMentionCount ==
    IF analysis.id = "none" THEN TRUE
    ELSE (/\ db_analyses[analysis.id].status = "completed"
          /\ \A a \in AnalysisIds \ {analysis.id} : db_analyses[a].status = "pending"
          /\ Len(raw_insights) = 2
          /\ Len(deduplicated) = 1)
         => /\ Len(db_initiatives) = 1
            /\ db_initiatives[1].mention_count = 2

\* C14: once DocumentService.delete_document has deleted a document, no
\* entry with its document_id remains in any company's collection, and no
\* retrieval call made afterwards returns a chunk of it.
C14_DeletedDocumentLeavesIndex ==
    [][\A d \in DocumentIds \ document_rows' :
          /\ \A name \in DOMAIN collections' : EntriesOf(collections', name, d) = {}
          /\ retrieval_call' # retrieval_call \/ results' # results =>
                \A i \in 1..Len(results') : results'[i].document_id # d]_vars

\* C15: IndexManager.delete_document returns True only if no entry with the
\* document_id remains in the company's collection afterwards; when the
\* store's lookup or delete failed or removed only part of the entries, it
\* returns False.
C15_DeleteReportsOutcome ==
    [][delete_call' # delete_call /\ delete_call'.returned =>
          EntriesOf(collections', collection_name(delete_call'.company_id),
                    delete_call'.document_id) = {}]_vars

\* the confidence the claim gives an item: 0.5 when the model's value is
\* missing or no number, else the value clamped to [0, 1]
ClampedConfidence(confidence) ==
    IF confidence.kind # "number" THEN 5
    ELSE IF confidence.number < 0 THEN 0
    ELSE IF confidence.number > 10 THEN 10
    ELSE confidence.number

\* C16: every initiative forward returns has 0 <= confidence <= 1; for a
\* single item that is well-formed but for its confidence, forward returns
\* the item with the confidence clamped, or 0.5 when it is missing or no
\* number.
C16_ConfidenceClamped ==
    extracted.call = "returned" =>
        /\ \A k \in 1..Len(extracted.initiatives) :
              /\ extracted.initiatives[k].confidence >= 0
              /\ extracted.initiatives[k].confidence <= 10
        /\ (/\ Len(model_items) = 1
            /\ model_items[1] = [WellFormed EXCEPT !.confidence = model_items[1].confidence])
           => /\ Len(extracted.initiatives) = 1
              /\ extracted.initiatives[1].confidence =
                    ClampedConfidence(model_items[1].confidence)

\* C17: when the reasoning call returned a list, forward does not raise and
\* returns exactly the items that parse, in their order in the list, whatever
\* items fail to parse before, between or after them.
C17_FailuresAreSkipped ==
    extracted.call = "returned" =>
        /\ ~extracted.raised
        /\ LET parsing == SelectSeq(model_items, LAMBDA item : ~ParseItem(item).raised)
           IN extracted.initiatives =
                 [k \in 1..Len(parsing) |-> ParseItem(parsing[k]).initiative[1]]

\* a list whose second item fails between two that parse, both returned
C17_Witness ==
    /\ extracted.call = "returned"
    /\ Len(model_items) = 3
    /\ ~ParseItem(model_items[1]).raised
    /\ ParseItem(model_items[2]).raised
    /\ ~ParseItem(model_items[3]).raised
    /\ Len(extracted.initiatives) = 2

\* quote occurs in text as a run of consecutive characters
IsSubstring(quote, text) ==
    \E start \in 0..(Len(text) - Len(quote)) :
        \A k \in 1..Len(quote) : text[start + k] = quote[k]

\* C20: the evidence_quote of every initiative forward returns for a chunk is
\* empty or a verbatim substring of the chunk text handed to the reasoning
\* model.
C20_QuoteIsVerbatim ==
    \A k \in 1..Len(extracted.initiatives) :
        \/ extracted.initiatives[k].evidence_quote = <<>>
        \/ IsSubstring(extracted.initiatives[k].evidence_quote, context)

\* C18: when the extraction of a document raised during a run_analysis job,
\* the handler goes on with the remaining documents: it does not raise, and
\* the analysis is not marked failed.
C18_ExtractionFailureTolerated ==
    (\E i \in 1..job_position : job_documents[i].raised)
        => /\ job_analysis.status # "failed"
           /\ job_exit # "raised"

\* C19: DocumentParser.parse hands the content to the first parser, in the
\* order PDF, DOCX, PPTX, transcript, plain text, that supports the
\* filename; it raises the unsupported-file-type error, and returns no
\* ParsedDocument, exactly when no parser supports the filename.
C19_ParserDispatch ==
    LET order == <<"PDFParser", "DocxParser", "PptxParser",
                   "TranscriptParser", "TextParser">>
        filename == parse_call.filename
        supporting == {i \in 1..Len(order) : supports(order[i], filename)}
    IN parse_call.called =>
        /\ (parse_result.raised = "Unsupported file type") <=> supporting = {}
        /\ supporting = {} => ~parse_result.document
        /\ \A i \in supporting :
             (\A j \in supporting : i <= j) => parse_result.parser = order[i]

C19_Witness ==
    /\ parse_call.called
    /\ parse_call.filename = <<"report", "xyz">>
    /\ parse_result.raised = "Unsupported file type"
    /\ ~parse_result.document


\* C21: every chunk a chunker returns has a text that is not empty once
\* whitespace is trimmed, whatever the parsed document: blank pages,
\* headings without content and tables without rows included.
C21_ChunkTextNonEmpty ==
    \A i \in 1..Len(chunks) : chunks[i].text_len > 0

\* C22: the chunks a chunker returns for a parsed document with n tables
\* hold exactly n chunks of chunk_type "table", with either strategy.
C22_OneChunkPerTable ==
    chunker # "none" =>
        Cardinality({i \in 1..Len(chunks) : chunks[i].chunk_type = "table"})
            = Len(parsed_doc.tables)


\* the key of a date, increasing with the date
DateKey(dt) == (dt.year * 12 + dt.month) * 31 + dt.day
\* the first and the last month of the calendar period of dt
PeriodMonths(dt, g) ==
    IF g = "year" THEN <<1, 12>>
    ELSE IF g = "month" THEN <<dt.month, dt.month>>
    ELSE CHOOSE p \in {<<1, 3>>, <<4, 6>>, <<7, 9>>, <<10, 12>>} :
            p[1] <= dt.month /\ dt.month <= p[2]

\* C23: for every insight of a timeline item, the item's bounds, which are
\* _get_period_bounds of the _get_period_key of the insight's date, are the
\* first and the last day of the calendar period that holds the date.
C23_PeriodKeyRoundTrip ==
    \A k \in 1..Len(timeline.items) :
        LET item == timeline.items[k]
        IN \A i \in 1..Len(item.insights) :
             LET dt == item.insights[i]
                 months == PeriodMonths(dt, group_by)
             IN /\ item.period_start = datetime(dt.year, months[1], 1)
                /\ item.period_end =
                     datetime(dt.year, months[2],
                              DaysInMonth(dt.year, months[2]))
                /\ DateKey(item.period_start) <= DateKey(dt)
                /\ DateKey(dt) <= DateKey(item.period_end)

\* C23 witness: a date of quarter 2 of 2024 gave the key "Q2 2024" and the
\* bounds 2024-04-01 .. 2024-06-30
C23_Witness ==
    /\ timeline.called
    /\ group_by = "quarter"
    /\ \E k \in 1..Len(timeline.items) :
         /\ timeline.items[k].period = <<"Q", "2", " ", "2", "0", "2", "4">>
         /\ timeline.items[k].period_start = datetime(2024, 4, 1)
         /\ timeline.items[k].period_end = datetime(2024, 6, 30)

\* C24: the items get_timeline returns are in chronological order:
\* period_start is strictly increasing along them.
C24_TimelineChronological ==
    \A k \in 1..(Len(timeline.items) - 1) :
        DateKey(timeline.items[k].period_start)
            < DateKey(timeline.items[k + 1].period_start)


\* C25: for three candidates A, B, C in input order of which the pairwise
\* test accepts (A, B) and (B, C) and rejects (A, C), _find_duplicate_groups
\* returns the single group A, B, C, and forward one item merged from three.
C25_JoinsThroughGroupedMember ==
    IF /\ Len(candidates) = 3
       /\ dedup_pc = "first"
       /\ Cardinality({candidates[i].text : i \in 1..3}) = 3
    THEN (/\ _compare_initiatives(comparator, candidates[1], candidates[2])
          /\ _compare_initiatives(comparator, candidates[2], candidates[3])
          /\ ~_compare_initiatives(comparator, candidates[1], candidates[3]))
            => /\ _find_duplicate_groups(comparator, candidates)
                    = <<candidates>>
               /\ Len(first_pass) = 1
               /\ first_pass[1].merged_count = 3
    ELSE TRUE

\* how often x occurs in the sequence s
Occurrences(s, x) == Cardinality({i \in 1..Len(s) : s[i] = x})
\* the position at which x occurs first in s
FirstPosition(s, x) == CHOOSE i \in 1..Len(s) :
                           s[i] = x /\ \A j \in 1..(i - 1) : s[j] # x

\* C29: _find_duplicate_groups partitions the candidates: the groups are not
\* empty and hold every candidate exactly as often as the input does, they
\* come in the input order of their first members, and forward returns one
\* item per group, so never more items than it was given.
C29_GroupsPartition ==
    IF dedup_pc = "start" THEN TRUE
    ELSE LET groups == IF candidates = <<>> THEN <<>>
                       ELSE _find_duplicate_groups(comparator, candidates)
             members == Concat(groups)
         IN /\ \A k \in 1..Len(groups) : groups[k] # <<>>
            /\ Len(members) = Len(candidates)
            /\ \A i \in 1..Len(candidates) :
                 Occurrences(members, candidates[i])
                     = Occurrences(candidates, candidates[i])
            /\ \A k \in 1..(Len(groups) - 1) :
                 FirstPosition(candidates, groups[k][1])
                     < FirstPosition(candidates, groups[k + 1][1])
            /\ Len(first_pass) = Len(groups)
            /\ Len(first_pass) <= Len(candidates)

\* C29 witness: three candidates fell into two groups, one of two members
C29_Witness ==
    /\ dedup_pc = "first"
    /\ Len(candidates) = 3
    /\ Len(first_pass) = 2
    /\ \E k \in 1..2 : first_pass[k].merged_count = 2


\* the chunks of the company's collection that pass the filters of a
\* retrieve call: the document filter and min_score
MatchingChunks(cols, call) ==
    {n \in cols[collection_name(call.company_id)] :
        /\ \/ call.args.document_ids = {}
           \/ n.metadata.document_id \in call.args.document_ids
        /\ \/ Similarity(call.args.query, n) = 0
           \/ Similarity(call.args.query, n) >= call.args.min_score}

C27_LookupNotSerialised ==
    \A a \in DOMAIN runs, b \in DOMAIN runs :
        (a # b /\ runs[a].pc = "create" /\ runs[b].pc = "find_similar")
            => ENABLED FindSimilar(b)

\* C27 witness: two initiative rows of the same company, name and category,
\* each with an insight flagged is_new, made by two runs
C27_Witness ==
    \E i \in 1..Len(initiative_rows), j \in 1..Len(initiative_rows) :
        /\ i # j
        /\ initiative_rows[i].company_id = initiative_rows[j].company_id
        /\ initiative_rows[i].name = initiative_rows[j].name
        /\ initiative_rows[i].category = initiative_rows[j].category
        /\ \E m \in 1..Len(insight_rows), n \in 1..Len(insight_rows) :
             /\ insight_rows[m].initiative_id = i
             /\ insight_rows[n].initiative_id = j
             /\ insight_rows[m].is_new /\ insight_rows[n].is_new
             /\ insight_rows[m].analysis_id # insight_rows[n].analysis_id


\* C28: however concurrent upload_document calls interleave, no two Document
\* records have the same company_id and the same content_hash.
C28_NoDuplicateRecords ==
    \A d \in document_table, e \in document_table :
        (d.company_id = e.company_id /\ d.content_hash = e.content_hash)
            => d = e


\* C30: after any sequence of process_document calls, a document no call is
\* working on is not in status processing, a document in status completed
\* has no error_message, and a document in status processing has no
\* processed_at.
C30_ProcessingStatusConsistent ==
    \A d \in DocumentIds :
        /\ processing # d => doc_status[d].status # Some("processing")
        /\ doc_status[d].status = Some("completed")
             => doc_status[d].error_message = None
        /\ doc_status[d].status = Some("processing")
             => doc_status[d].processed_at = None

====
